---- MODULE Spec2Model ----
(***************************************************************************)
(* EchoBack: the paginated WebDAV synchronisation of the two record        *)
(* collections (history, notebook) kept in IndexedDB.                      *)
(*                                                                         *)
(*   src/services/webdav.ts  WebDAVService (remote protocol, pagination,   *)
(*                           full sync, incremental push)                  *)
(*   src/services/db.ts      EchoDB (the local object stores, keyPath id)  *)
(*   src/App.tsx             performSync and the mutation handlers that    *)
(*                           start an incremental push                     *)
(*                                                                         *)
(* Every HTTP request of a sync or push invocation is one step of the      *)
(* model; its response (2xx, 404, any other failure) is chosen by the      *)
(* step.  The remote server starts empty and is only ever written by the   *)
(* program's own code, run by this app instance or by another device.      *)
(***************************************************************************)
EXTENDS Integers, Sequences, FiniteSets, TLC

\* ------------------------------------------------------------ constants

\* webdav.ts:6
PAGE_SIZE == 100
\* webdav.ts:7
INDEX_VERSION == 2
\* webdav.ts:9
DataTypes == {"history", "notebook"}
\* webdav.ts:3-5
BASE_DIR == "echoback"
HISTORY_DIR == "echoback/history"
NOTEBOOK_DIR == "echoback/notebook"
AllDirs == {BASE_DIR, HISTORY_DIR, NOTEBOOK_DIR}

\* a file that does not exist on the server / a variable holding null
Null == [null |-> TRUE]

\* ------------------------------------------------------------ bounds

\* number of operations one behaviour starts: full syncs, local mutations
\* (each followed by an incremental push) and uploads by another device
MaxOps == 2
\* ids 1..MaxSmallId: every subset of them is an initial local history
MaxSmallId == 2
\* ids 1..MaxNotebookId: every subset of them is an initial local notebook
MaxNotebookId == 1

\* ------------------------------------------------------------ records

\* A HistoryRecord / NotebookEntry: the id, the timestamp, and rev standing for
\* the rest of the payload (two copies of one id may differ in it).
Rec(i, t, r) == [id |-> i, timestamp |-> t, rev |-> r]

\* Date.now() when the behaviour starts: later than every stored timestamp
StartTime == 1000

\* The copy of record i held by this device (rev 1) and by the other device
\* (rev 0).  Timestamps tie in pairs; the local copy of an odd id is newer than
\* the other device's copy, the local copy of an even id is older.
PeerTs(i) == i \div 2
LocalTs(i) == IF i % 2 = 1 THEN (i \div 2) + 3 ELSE (i \div 2) - 1
LocalRec(i) == Rec(i, LocalTs(i), 1)
PeerRec(i) == Rec(i, PeerTs(i), 0)

\* An object store with keyPath "id": a function from the stored ids to
\* records; the store of this device and that of the other device
LocalStore(ids) == [i \in ids |-> LocalRec(i)]
PeerStore(ids) == [i \in ids |-> PeerRec(i)]

\* ------------------------------------------------------------ arrays

\* Array.prototype.slice(a, b) on a sequence (0-based, end exclusive)
Slice(s, a, b) ==
  LET lo == IF a > Len(s) THEN Len(s) ELSE a
      hi == IF b > Len(s) THEN Len(s) ELSE b
  IN IF hi <= lo THEN <<>> ELSE SubSeq(s, lo + 1, hi)

\* how many leading elements of the descending run b[lo..hi] come before a
\* record of timestamp t when that record loses ties (binary search)
RECURSIVE CountBefore(_, _, _, _)
CountBefore(b, t, lo, hi) ==
  IF lo > hi THEN lo - 1
  ELSE LET m == (lo + hi) \div 2
       IN IF b[m].timestamp > t
          THEN CountBefore(b, t, m + 1, hi)
          ELSE CountBefore(b, t, lo, m - 1)

\* stable merge of two descending runs, a's records first among equal timestamps
RECURSIVE MergeDesc(_, _)
MergeDesc(a, b) ==
  IF a = <<>> THEN b
  ELSE IF b = <<>> THEN a
  ELSE LET m == (Len(a) + 1) \div 2
           p == CountBefore(b, a[m].timestamp, 1, Len(b))
       IN MergeDesc(SubSeq(a, 1, m - 1), SubSeq(b, 1, p)) \o <<a[m]>>
            \o MergeDesc(SubSeq(a, m + 1, Len(a)), SubSeq(b, p + 1, Len(b)))

\* the array left in the order it came in
KeepOrder(s) == s

\* [...s].sort((a, b) => b.timestamp - a.timestamp): Array.prototype.sort is
\* stable, so records of equal timestamp keep their order
RECURSIVE SortDesc(_)
SortDesc(s) ==
  IF Len(s) <= 1 THEN s
  ELSE LET h == Len(s) \div 2
       IN MergeDesc(SortDesc(SubSeq(s, 1, h)), SortDesc(SubSeq(s, h + 1, Len(s))))

\* for each id of items[lo..hi], the first position holding it
RECURSIVE FirstIdx(_, _, _)
FirstIdx(items, lo, hi) ==
  IF lo > hi THEN <<>>
  ELSE IF lo = hi THEN (items[lo].id :> lo)
  ELSE LET m == (lo + hi) \div 2
       IN FirstIdx(items, lo, m) @@ FirstIdx(items, m + 1, hi)

\* for each id of items[lo..hi], the last position holding it
RECURSIVE LastIdx(_, _, _)
LastIdx(items, lo, hi) ==
  IF lo > hi THEN <<>>
  ELSE IF lo = hi THEN (items[lo].id :> lo)
  ELSE LET m == (lo + hi) \div 2
       IN LastIdx(items, m + 1, hi) @@ LastIdx(items, lo, m)

\* the records collected in an array instead of a Map: nothing is keyed by id
ArrayValues(items) == items

\* const m = new Map(); items.forEach(item => m.set(item.id, item));
\* Array.from(m.values()): one value per id, in the order in which the ids were
\* first set, each id holding the value set last
MapValues(items) ==
  LET n == Len(items)
      first == FirstIdx(items, 1, n)
      last == LastIdx(items, 1, n)
      keep == SelectSeq([i \in 1..n |-> i], LAMBDA i : first[items[i].id] = i)
  IN [k \in 1..Len(keep) |-> items[last[items[keep[k]].id]]]

\* the merge with the two insertion loops swapped: local records first, then
\* remote ones, so that a colliding id takes the remote copy
MergeByIdRemoteLast(remoteRecords, localRecords) ==
  MapValues(localRecords \o remoteRecords)

\* the merge as a plain concatenation, nothing keyed by id
MergeByIdConcat(remoteRecords, localRecords) == remoteRecords \o localRecords

\* the merge that takes the remote set as the authority on deletions: a local
\* record whose id the remote set does not hold is dropped
MergeByIdKnownOnly(remoteRecords, localRecords) ==
  MapValues(remoteRecords \o
            SelectSeq(localRecords,
                      LAMBDA x : \E k \in DOMAIN remoteRecords : remoteRecords[k].id = x.id))

\* the merge of syncDataType: remote records first, then local ones
MergeById(remoteRecords, localRecords) == MapValues(remoteRecords \o localRecords)

Ids(s) == {s[k].id : k \in DOMAIN s}
Elems(s) == {s[k] : k \in DOMAIN s}

\* ------------------------------------------------------------ EchoDB

\* the keys an object store can hold, in key order
MaxKey == 160
KeyOrder == [i \in 1..MaxKey |-> i]

\* store.getAll(): the records in key order
storeGetAll(st) ==
  LET keys == SelectSeq(KeyOrder, LAMBDA i : i \in DOMAIN st)
  IN [k \in 1..Len(keys) |-> st[keys[k]]]

\* getHistory / getNotebookEntries: getAll, then sort by timestamp descending
getAll(st) == SortDesc(storeGetAll(st))

\* a paged read that takes its first argument for a page number
getPagedByPage(st, offset, limit) ==
  Slice(getAll(st), offset * limit, offset * limit + limit)

\* getHistoryPaged / getNotebookPaged
getPaged(st, offset, limit) == Slice(getAll(st), offset, offset + limit)

\* a write that keeps the record already stored under the id (store.add
\* without its error)
putKeepExisting(st, r) ==
  [i \in DOMAIN st \cup {r.id} |-> IF i \in DOMAIN st THEN st[i] ELSE r]

\* saveHistory / saveNotebookEntry: store.put(record)
put(st, r) == [i \in DOMAIN st \cup {r.id} |-> IF i = r.id THEN r ELSE st[i]]

\* a batch write that stores its first record only
putBatchFirstOnly(st, records) ==
  IF Len(records) = 0 THEN st ELSE put(st, records[1])

\* saveHistoryBatch / saveNotebookBatch: store.put of every record (an empty
\* batch returns at once)
putBatch(st, records) ==
  IF Len(records) = 0 THEN st
  ELSE LET last == LastIdx(records, 1, Len(records))
       IN [i \in DOMAIN st \cup DOMAIN last |->
             IF i \in DOMAIN last THEN records[last[i]] ELSE st[i]]

\* deleteHistory / deleteNotebookEntry: store.delete(id)
delete(st, id) == [i \in DOMAIN st \ {id} |-> st[i]]

\* getHistoryCount / getNotebookCount: store.count()
getCount(st) == Cardinality(DOMAIN st)

\* how a method that starts with `await this.dbPromise` can end: when the
\* open was rejected the await throws; otherwise its request succeeds or fails
StoreOutcomes(d) == IF d = "open" THEN {"ok", "fail"} ELSE {"fail"}

\* ------------------------------------------------------------ pagination

\* the PageIndex entry with the values of recordCount and lastModified swapped
PageMetaSwapped(page, t) ==
  [pageNumber |-> page.pageNumber, recordCount |-> t, lastModified |-> Len(page.records)]

\* the PageIndex entry with recordCount: PAGE_SIZE instead of the page's length
PageMetaFullCount(page, t) ==
  [pageNumber |-> page.pageNumber, recordCount |-> PAGE_SIZE, lastModified |-> t]

\* the PageIndex entry of one page
PageMeta(page, t) ==
  [pageNumber |-> page.pageNumber, recordCount |-> Len(page.records), lastModified |-> t]

\* paginateRecords with slice(i, i + PAGE_SIZE - 1): every full page loses its
\* last record
paginateShortSlice(records, t) ==
  LET sorted == SortDesc(records)
      starts == {i \in 0..(Len(sorted) - 1) : i % PAGE_SIZE = 0}
      pages == [p \in 1..Cardinality(starts) |->
                  [pageNumber |-> ((p - 1) * PAGE_SIZE) \div PAGE_SIZE,
                   records |-> Slice(sorted, (p - 1) * PAGE_SIZE,
                                     (p - 1) * PAGE_SIZE + PAGE_SIZE - 1)]]
      index == [version |-> INDEX_VERSION,
                totalRecords |-> Len(records),
                pageSize |-> PAGE_SIZE,
                totalPages |-> Len(pages),
                lastSyncTime |-> t,
                pages |-> [p \in 1..Len(pages) |-> PageMeta(pages[p], t)]]
  IN [pages |-> pages, index |-> index]

\* paginateRecords with a loop that runs once even for an empty array
paginateAtLeastOnePage(records, t) ==
  LET sorted == SortDesc(records)
      starts == {0} \cup {i \in 0..(Len(sorted) - 1) : i % PAGE_SIZE = 0}
      pages == [p \in 1..Cardinality(starts) |->
                  [pageNumber |-> ((p - 1) * PAGE_SIZE) \div PAGE_SIZE,
                   records |-> Slice(sorted, (p - 1) * PAGE_SIZE,
                                     (p - 1) * PAGE_SIZE + PAGE_SIZE)]]
      index == [version |-> INDEX_VERSION,
                totalRecords |-> Len(records),
                pageSize |-> PAGE_SIZE,
                totalPages |-> Len(pages),
                lastSyncTime |-> t,
                pages |-> [p \in 1..Len(pages) |-> PageMeta(pages[p], t)]]
  IN [pages |-> pages, index |-> index]

\* paginateRecords, with t the value of Date.now()
paginateRecords(records, t) ==
  LET sorted == SortDesc(records)
      starts == {i \in 0..(Len(sorted) - 1) : i % PAGE_SIZE = 0}
      pages == [p \in 1..Cardinality(starts) |->
                  [pageNumber |-> ((p - 1) * PAGE_SIZE) \div PAGE_SIZE,
                   records |-> Slice(sorted, (p - 1) * PAGE_SIZE,
                                     (p - 1) * PAGE_SIZE + PAGE_SIZE)]]
      index == [version |-> INDEX_VERSION,
                totalRecords |-> Len(records),
                pageSize |-> PAGE_SIZE,
                totalPages |-> Len(pages),
                lastSyncTime |-> t,
                pages |-> [p \in 1..Len(pages) |-> PageMeta(pages[p], t)]]
  IN [pages |-> pages, index |-> index]

\* newPage0 and newIndex of the single-page branch of syncDataType
newPage0(mergedRecords) == [pageNumber |-> 0, records |-> mergedRecords]
newIndex(mergedRecords, t) ==
  [version |-> INDEX_VERSION,
   totalRecords |-> Len(mergedRecords),
   pageSize |-> PAGE_SIZE,
   totalPages |-> 1,
   lastSyncTime |-> t,
   pages |-> << [pageNumber |-> 0, recordCount |-> Len(mergedRecords),
                 lastModified |-> t] >>]

\* ------------------------------------------------------------ remote reads

\* (a PUT is answered 2xx only when the directory of its file exists)
\* the responses a GET can get: 2xx with the file, 404 when there is none, or
\* a failure (network error, 401, 5xx, ...)
GetResponses(file) == IF file = Null THEN {"404", "fail"} ELSE {"ok", "fail"}

\* getPageIndex: the parsed index on 2xx, null on 404; a failure is caught,
\* logged and answered with null as well
getPageIndex(resp, file) == IF resp = "ok" THEN file ELSE Null

\* getPage: the parsed page on 2xx, null on 404 and on a caught failure
getPage(resp, file) == IF resp = "ok" THEN file ELSE Null

\* the collection a directory lies in (the base directory lies in the root)
Parent(path) == IF path = BASE_DIR THEN "" ELSE BASE_DIR

\* the responses a MKCOL of path can get from a server holding dirs: 201 when
\* it creates the directory, 405 when the directory exists, 409 when the
\* parent is missing, or a failure (network error, 401, 5xx, ...)
MkcolResponses(path, dirs) ==
  (IF path \in dirs THEN {"405"}
   ELSE IF Parent(path) # "" /\ Parent(path) \notin dirs THEN {"409"}
   ELSE {"201"}) \cup {"fail"}

\* the directories of the server after that response
Mkcol(path, resp, dirs) == IF resp = "201" THEN dirs \cup {path} ELSE dirs

\* ensureDirectory that throws when the directory exists already
ensureDirectoryThrowsOn405(resp) == IF resp = "405" THEN "rejected" ELSE "resolved"

\* ensureDirectory: 2xx and 405 are success; any other status and a thrown
\* fetch are logged with console.warn, and the method returns all the same
ensureDirectory(resp) ==
  IF resp \in {"201", "405"} THEN "resolved"   \* nothing logged
  ELSE "resolved"                              \* console.warn, no throw

\* initializeDirectories: the three ensureDirectory calls awaited in turn
initializeDirectories(resps) ==
  IF \A k \in DOMAIN resps : ensureDirectory(resps[k]) = "resolved"
  THEN "resolved" ELSE "rejected"

\* the directory that holds the files of collection t
DirOf(t) == IF t = "history" THEN HISTORY_DIR ELSE NOTEBOOK_DIR

\* the directories left by the MKCOLs of base, history and notebook directory
\* answered resps
DirsAfter(resps, dirs) ==
  Mkcol(NOTEBOOK_DIR, resps[3], Mkcol(HISTORY_DIR, resps[2], Mkcol(BASE_DIR, resps[1], dirs)))
\* the response triples a server holding dirs can give: it answers all three
\* requests, or the failure outlasts the three of them
MkcolRuns(dirs) ==
  LET Resp == {"201", "405", "409", "fail"}
  IN {resps \in Resp \X Resp \X Resp :
        /\ resps[1] \in MkcolResponses(BASE_DIR, dirs)
        /\ resps[2] \in MkcolResponses(HISTORY_DIR, Mkcol(BASE_DIR, resps[1], dirs))
        /\ resps[3] \in MkcolResponses(NOTEBOOK_DIR,
                                        Mkcol(HISTORY_DIR, resps[2], Mkcol(BASE_DIR, resps[1], dirs)))
        /\ (\E k \in 1..3 : resps[k] = "fail") => (\A k \in 1..3 : resps[k] = "fail")}

\* putPage that clears the files numbered above the page it writes
putPageTruncating(files, page) ==
  [n \in {m \in DOMAIN files : m < page.pageNumber} \cup {page.pageNumber} |->
     IF n = page.pageNumber THEN page ELSE files[n]]

\* putPage answered 2xx: the PUT replaces (or creates) the file page_n.json of
\* the collection and touches no other file
putPage(files, page) == (page.pageNumber :> page) @@ files

\* remotePage0?.records || []
RecordsOf(page) == IF page = Null THEN <<>> ELSE page.records

\* ------------------------------------------------------------ state

VARIABLES
  store,     \* IndexedDB: for each collection, the object store (id -> record)
  rIndex,    \* server: for each collection, index.json (a PageIndex) or Null
  rPages,    \* server: for each collection, the page files (pageNumber -> PagedData)
  now,       \* the last value Date.now() returned
  sync,      \* the full sync invocation (performSync -> syncData)
  push,      \* the incremental push invocation (pushChanges)
  handler,   \* the mutation handler that is between its store write and its push
  inflight,  \* page PUTs still on the wire after their invocation has failed
  count,     \* how many operations have been started
  enabled,   \* WebDAVService.config?.enabled: remote sync is configured and on
  ui,        \* the React state of App and its pending AI requests
  db,        \* EchoDB.dbPromise: how indexedDB.open was answered
  rDirs,     \* server: the directories that exist
  call,      \* the last call of a service method made on its own, with its outcome
  push0,     \* the pushChanges invocation started before push, while it goes on
  sync0,     \* a second performSync invocation, when two are in flight
  deviceB    \* the device that is not acting: its IndexedDB

vars == <<store, rIndex, rPages, now, sync, push, handler, inflight, count, enabled,
          ui, db, rDirs, call, push0, sync0, deviceB>>

\* the file page_{n}.json of collection t, or Null
PageFile(t, n) == IF n \in DOMAIN rPages[t] THEN rPages[t][n] ELSE Null

\* the records of the pages the remote index of t lists, in index order
ListedRecordsOf(index, pages) ==
  IF index = Null THEN {}
  ELSE UNION { IF index.pages[k].pageNumber \in DOMAIN pages
               THEN Elems(pages[index.pages[k].pageNumber].records)
               ELSE {} : k \in DOMAIN index.pages }
ListedRecords(t) == ListedRecordsOf(rIndex[t], rPages[t])
RecIds(S) == {r.id : r \in S}

\* the value Date.now() returns once the next operation has started: operations
\* start at least a millisecond apart, and within one invocation the clock is
\* taken not to advance
Clock == {now + 1}

\* one request of an invocation, as the transport saw it: a GET with its
\* response, a PUT when it is issued and when it is answered; file -1 is
\* index.json, file n >= 0 is page_{n}.json
Ev(op, file, res) == [op |-> op, file |-> file, res |-> res]
IndexFile == -1

PageNumbers(pages) == {pages[k].pageNumber : k \in DOMAIN pages}
PageByNumber(pages, n) == pages[CHOOSE k \in DOMAIN pages : pages[k].pageNumber = n]
IssuePuts(log, nums) ==
  log \o [k \in 1..Cardinality(nums) |->
            Ev("PUT", CHOOSE n \in nums : Cardinality({m \in nums : m < n}) = k - 1, "issued")]

\* ------------------------------------------------------------ initial state

NoRecords == [t \in DataTypes |-> <<>>]

SyncIdle ==
  [pc |-> "idle", type |-> "history", local |-> NoRecords,
   remoteIndex |-> Null, allRemoteRecords |-> <<>>, cursor |-> 1,
   pages |-> <<>>, index |-> Null, pending |-> {}, ret |-> <<>>,
   result |-> NoRecords,
   \* observations of the invocation, read by the properties only
   path |-> "none", log |-> <<>>,
   merged0 |-> FALSE, remote0 |-> <<>>, out0 |-> <<>>,
   mergedAll |-> FALSE, remoteAll |-> <<>>, outAll |-> <<>>,
   before |-> [index |-> [t \in DataTypes |-> Null],
               pages |-> [t \in DataTypes |-> <<>>]],
   localBefore |-> [t \in DataTypes |-> <<>>],
   \* the ids the application has put while the invocation is in flight, and
   \* those it has deleted after the result of their collection was stored
   extra |-> [t \in DataTypes |-> {}],
   gone |-> [t \in DataTypes |-> {}],
   \* the ids the application has deleted while the invocation is in flight
   deleted |-> [t \in DataTypes |-> {}],
   \* the directories of the server when the invocation started
   dirsBefore |-> {},
   alone |-> TRUE]

PushIdle ==
  [pc |-> "idle", type |-> "history", local |-> NoRecords,
   pages |-> <<>>, index |-> Null, pending |-> {},
   log |-> <<>>, alone |-> TRUE, dirsBefore |-> {},
   before |-> [index |-> [t \in DataTypes |-> Null],
               pages |-> [t \in DataTypes |-> <<>>]],
   trigger |-> [kind |-> "none", type |-> "history", id |-> 0],
   \* what this invocation has uploaded for each collection, and what the
   \* invocation before it had
   uploaded |-> [t \in DataTypes |-> Null],
   prev |-> [t \in DataTypes |-> Null]]

HandlerIdle == [pc |-> "idle", kind |-> "none", type |-> "history", id |-> 0]

\* a second device that holds nothing; initial is what both devices and the
\* server held when the behaviour started, read by the properties only
DeviceIdle == [store |-> NoRecords, initial |-> [a |-> NoRecords, b |-> NoRecords, remote |-> NoRecords]]

\* App.tsx:127: the number of records the app loads and displays at a time
APP_PAGE_SIZE == 50

\* the ids of a sequence of records, in order
IdSeq(recs) == [k \in DOMAIN recs |-> recs[k].id]

\* the React state of App after construction: useState's initial values;
\* challenge, analysis and userTranslation say whether the value is set,
\* currentRecordId 0 is null, the displayed lists hold the ids shown;
\* generating, analyzing and selecting count the invocations of handleStart,
\* handleSubmit and handleSelectHistory that are waiting at their await
UiStart ==
  [state |-> "IDLE", challenge |-> FALSE, analysis |-> FALSE,
   userTranslation |-> FALSE, currentRecordId |-> 0, isSyncing |-> FALSE,
   displayedHistory |-> <<>>, displayedNotebook |-> <<>>,
   currentHistoryPage |-> 0, hasMoreHistory |-> TRUE,
   generating |-> 0, analyzing |-> 0, selecting |-> 0]

\* no service method has been called on its own
CallNone == [op |-> "none"]

\* the local collections a behaviour starts from
SmallStores == {LocalStore(S) : S \in SUBSET (1..MaxSmallId)}
NotebookStores == {LocalStore(S) : S \in SUBSET (1..MaxNotebookId)}
LargeStores == {LocalStore(96..105), LocalStore(91..105),
                LocalStore(1..150)}
\* the collections another device uploads
PeerSets(t) ==
  IF t = "history"
  THEN {PeerStore({}), PeerStore(1..MaxSmallId),
        PeerStore(1..95), PeerStore(1..150)}
  ELSE {}

Init ==
  /\ store \in {[history |-> h, notebook |-> n] :
                  h \in SmallStores \cup LargeStores, n \in NotebookStores}
  /\ rIndex = [t \in DataTypes |-> Null]
  /\ rPages = [t \in DataTypes |-> <<>>]
  /\ now = StartTime
  /\ sync = SyncIdle
  /\ push = PushIdle
  /\ handler = HandlerIdle
  /\ inflight = {}
  /\ count = 0
  /\ enabled \in BOOLEAN
  /\ ui = UiStart
  /\ db = "open"
  /\ rDirs = {}
  /\ call = CallNone
  /\ push0 = PushIdle
  /\ sync0 = SyncIdle
  /\ deviceB = DeviceIdle

\* ------------------------------------------------------------ full sync

Terminal == {"idle", "done", "failed"}

\* another writer has touched the server during (or since) invocation s
Disturb(s) == IF s.pc = "idle" THEN s ELSE [s EXCEPT !.alone = FALSE]

\* uploadAllPages up to its first await: paginate, issue the PUT of every page
\* at once (Promise.all); with no page the index PUT is issued at once
uploadAllPages(s, records, t) ==
  LET up == paginateRecords(records, t)
      nums == PageNumbers(up.pages)
  IN [s EXCEPT !.pages = up.pages, !.index = up.index, !.pending = nums,
               !.pc = IF nums = {} THEN "putIndex" ELSE "putPages",
               !.log = IssuePuts(@, nums) \o
                 (IF nums = {} THEN <<Ev("PUT", IndexFile, "issued")>> ELSE <<>>)]

\* uploadAllPages without the await of Promise.all: the index PUT is issued as
\* soon as the first page PUT is answered
pagePutDoneNoAwait(s, n, t) ==
  [s EXCEPT !.pending = s.pending \ {n},
            !.pc = "putIndex",
            !.index = IF s.path = "single" THEN newIndex(s.ret, t) ELSE @,
            !.log = @ \o <<Ev("PUT", n, "ok"), Ev("PUT", IndexFile, "issued")>>]

\* a page PUT of the sync was answered 2xx: once none is pending the index PUT
\* is issued (the single-page branch builds newIndex only now)
pagePutDone(s, n, t) ==
  LET left == s.pending \ {n}
  IN [s EXCEPT !.pending = left,
               !.pc = IF left = {} THEN "putIndex" ELSE @,
               !.index = IF left = {} /\ s.path = "single"
                         THEN newIndex(s.ret, t) ELSE @,
               !.log = @ \o <<Ev("PUT", n, "ok")>> \o
                 (IF left = {} THEN <<Ev("PUT", IndexFile, "issued")>> ELSE <<>>)]

\* a PUT of the invocation failed: putPage / putPageIndex rethrow, the
\* invocation rejects; the other page PUTs of the Promise.all stay on the wire
putFailed(s, n) ==
  [s EXCEPT !.pc = "failed", !.pending = {},
            !.log = @ \o <<Ev("PUT", n, "fail")>>]
Orphans(s, n) ==
  {[type |-> s.type, page |-> PageByNumber(s.pages, m)] : m \in s.pending \ {n}}

\* the loop of downloadAllPages at index.pages[cursor]; after the last page
\* syncDataType merges all remote records with the local ones and uploads
downloadAllPages(s, t) ==
  IF s.cursor <= Len(s.remoteIndex.pages)
  THEN [s EXCEPT !.pc = "download"]
  ELSE LET allMerged == MergeById(s.allRemoteRecords, s.local[s.type])
       IN uploadAllPages([s EXCEPT !.ret = allMerged, !.mergedAll = TRUE,
                                   !.remoteAll = s.allRemoteRecords,
                                   !.outAll = allMerged],
                         allMerged, t)

\* syncDataType after the fetch of page 0: merge, then repaginate or write back
mergePage0(s, remotePage0Records, t) ==
  LET mergedRecords == SortDesc(MergeById(remotePage0Records, s.local[s.type]))
      s1 == [s EXCEPT !.merged0 = TRUE, !.remote0 = remotePage0Records,
                      !.out0 = mergedRecords]
  IN IF Len(mergedRecords) > PAGE_SIZE
     THEN downloadAllPages([s1 EXCEPT !.path = "repaginate",
                                      !.cursor = 1, !.allRemoteRecords = <<>>], t)
     ELSE [s1 EXCEPT !.path = "single",
                     !.pages = <<newPage0(mergedRecords)>>,
                     !.pending = {0}, !.pc = "putPages", !.ret = mergedRecords,
                     !.log = @ \o <<Ev("PUT", 0, "issued")>>]

\* the index PUT was answered 2xx: syncDataType returns s.ret
syncTypeDone(s) ==
  [s EXCEPT !.pc = "typeDone", !.result[s.type] = s.ret,
            !.log = @ \o <<Ev("PUT", IndexFile, "ok")>>]

\* syncData after syncDataType has returned: on to the notebook, or return
\* both results to performSync
syncData(s) ==
  LET s1 == [s EXCEPT !.remoteIndex = Null, !.allRemoteRecords = <<>>, !.cursor = 1,
                      !.pages = <<>>, !.index = Null, !.ret = <<>>,
                      !.path = "none", !.log = <<>>,
                      !.merged0 = FALSE, !.remote0 = <<>>, !.out0 = <<>>,
                      !.mergedAll = FALSE, !.remoteAll = <<>>, !.outAll = <<>>]
  IN IF s.type = "history"
     THEN [s1 EXCEPT !.type = "notebook", !.pc = "getIndex"]
     ELSE [s1 EXCEPT !.pc = "saveHistory"]

\* syncData without the check of config.enabled
syncDataEntryUnguarded(on) == "dirs"

\* where syncData goes first: to initializeDirectories, or, when remote sync is
\* not enabled, straight back to performSync with the local sets as result
syncDataEntry(on) == IF on THEN "dirs" ELSE "saveHistory"

\* where pushChanges goes first: to initializeDirectories, or, when remote sync
\* is not enabled, straight back to its caller
pushChangesEntry(on) == IF on THEN "dirs" ELSE "done"

\* performSync whose setIsSyncing(false) stands at the end of the try block
\* instead of in a finally
performSyncNoFinally(u, s) ==
  IF s.pc = "done" THEN [u EXCEPT !.isSyncing = FALSE] ELSE u

\* performSync's finally: once the invocation has ended, completed or failed,
\* setIsSyncing(false)
performSyncFinally(u, s) ==
  IF s.pc \in {"done", "failed"} THEN [u EXCEPT !.isSyncing = FALSE] ELSE u

\* performSync after both batches are stored: the first page of each
\* collection becomes the displayed list
performSyncReload(u, st) ==
  [u EXCEPT !.displayedHistory = IdSeq(getPaged(st.history, 0, APP_PAGE_SIZE)),
            !.displayedNotebook = IdSeq(getPaged(st.notebook, 0, APP_PAGE_SIZE)),
            !.currentHistoryPage = 0,
            !.hasMoreHistory = (Len(getPaged(st.history, 0, APP_PAGE_SIZE)) = APP_PAGE_SIZE)]

\* performSync: setIsSyncing(true), read both collections, call syncData
StartSync ==
  /\ sync.pc \in Terminal
  /\ handler.pc = "idle" /\ push.pc \in Terminal /\ inflight = {}
  /\ count < MaxOps
  /\ now' \in Clock
  /\ sync' = [SyncIdle EXCEPT !.pc = syncDataEntry(enabled),
                              !.local = [t \in DataTypes |-> getAll(store[t])],
                              !.result = IF enabled THEN NoRecords
                                         ELSE [t \in DataTypes |-> getAll(store[t])],
                              !.before = [index |-> rIndex, pages |-> rPages],
                              !.localBefore = store,
                              !.dirsBefore = rDirs,
                              !.alone = (push.pc \in Terminal /\ inflight = {})]
  /\ push' = PushIdle
  /\ ui' = [ui EXCEPT !.isSyncing = TRUE]
  /\ count' = count + 1
  /\ UNCHANGED <<store, rIndex, rPages, handler, inflight, enabled, db, rDirs, call, push0,
                sync0, deviceB>>

\* syncData: initializeDirectories (the three MKCOLs are answered), then
\* syncDataType('history')
SyncInitDirs ==
  /\ sync.pc = "dirs"
  /\ \E resps \in MkcolRuns(rDirs) :
       /\ rDirs' = DirsAfter(resps, rDirs)
       /\ sync' = IF initializeDirectories(resps) = "resolved"
                  THEN [sync EXCEPT !.pc = "getIndex", !.type = "history"]
                  ELSE [sync EXCEPT !.pc = "failed"]
  /\ ui' = performSyncFinally(ui, sync')
  /\ UNCHANGED <<store, rIndex, rPages, now, push, handler, inflight, count, enabled, db,
                call, push0, sync0, deviceB>>

\* syncDataType: the GET of index.json is answered
SyncGetIndex ==
  /\ sync.pc = "getIndex"
  /\ \E resp \in GetResponses(rIndex[sync.type]) :
       LET ty == sync.type
           remoteIndex == getPageIndex(resp, rIndex[ty])
           s1 == [sync EXCEPT !.remoteIndex = remoteIndex,
                              !.log = @ \o <<Ev("GET", IndexFile, resp)>>]
           s2 == IF remoteIndex = Null
                 THEN uploadAllPages([s1 EXCEPT !.path = "bootstrap",
                                                !.ret = sync.local[ty]],
                                     sync.local[ty], now)
                 ELSE [s1 EXCEPT !.pc = "getPage0"]
       IN sync' = s2
  /\ UNCHANGED <<store, rIndex, rPages, now, push, handler, inflight, count, enabled, ui, db,
                rDirs, call, push0, sync0, deviceB>>

\* syncDataType: the GET of page_0.json is answered
SyncGetPage0 ==
  /\ sync.pc = "getPage0"
  /\ \E resp \in GetResponses(PageFile(sync.type, 0)) :
       LET ty == sync.type
           remotePage0 == getPage(resp, PageFile(ty, 0))
           s1 == [sync EXCEPT !.log = @ \o <<Ev("GET", 0, resp)>>]
       IN sync' = mergePage0(s1, RecordsOf(remotePage0), now)
  /\ UNCHANGED <<store, rIndex, rPages, now, push, handler, inflight, count, enabled, ui, db,
                rDirs, call, push0, sync0, deviceB>>

\* downloadAllPages: the GET of the next listed page is answered
SyncDownloadPage ==
  /\ sync.pc = "download"
  /\ LET ty == sync.type
         n == sync.remoteIndex.pages[sync.cursor].pageNumber
     IN \E resp \in GetResponses(PageFile(ty, n)) :
          LET page == getPage(resp, PageFile(ty, n))
              s1 == [sync EXCEPT !.allRemoteRecords = @ \o RecordsOf(page),
                                 !.cursor = @ + 1,
                                 !.log = @ \o <<Ev("GET", n, resp)>>]
          IN sync' = downloadAllPages(s1, now)
  /\ UNCHANGED <<store, rIndex, rPages, now, push, handler, inflight, count, enabled, ui, db,
                rDirs, call, push0, sync0, deviceB>>

\* putPage of the sync: one pending page PUT is answered
SyncPutPage ==
  /\ sync.pc = "putPages"
  /\ \E n \in sync.pending :
       \/ /\ DirOf(sync.type) \in rDirs
          /\ sync' = pagePutDone(sync, n, now)
          /\ rPages' = [rPages EXCEPT ![sync.type] =
                          putPage(@, PageByNumber(sync.pages, n))]
          /\ push' = Disturb(push)
          /\ UNCHANGED inflight
       \/ /\ sync' = putFailed(sync, n)
          /\ inflight' = inflight \cup Orphans(sync, n)
          /\ UNCHANGED <<rPages, push>>
  /\ ui' = performSyncFinally(ui, sync')
  /\ UNCHANGED <<store, rIndex, now, handler, count, enabled, db, rDirs, call, push0, sync0,
                deviceB>>

\* putPageIndex of the sync: the index PUT is answered
SyncPutIndex ==
  /\ sync.pc = "putIndex"
  /\ \/ /\ DirOf(sync.type) \in rDirs
        /\ rIndex' = [rIndex EXCEPT ![sync.type] = sync.index]
        /\ sync' = syncTypeDone(sync)
        /\ push' = Disturb(push)
     \/ /\ sync' = putFailed(sync, IndexFile)
        /\ UNCHANGED <<rIndex, push>>
  /\ ui' = performSyncFinally(ui, sync')
  /\ UNCHANGED <<store, rPages, now, handler, inflight, count, enabled, db, rDirs, call,
                push0, sync0, deviceB>>

\* syncData resumes after syncDataType has returned
SyncReturn ==
  /\ sync.pc = "typeDone"
  /\ sync' = syncData(sync)
  /\ UNCHANGED <<store, rIndex, rPages, now, push, handler, inflight, count, enabled, ui, db,
                rDirs, call, push0, sync0, deviceB>>

\* the outcomes of a batch write: the empty batch returns before it awaits the
\* database; any other commits its transaction, or rejects because the open
\* was rejected or because a put request fails, which aborts the transaction
BatchOutcomes(d, records) == IF Len(records) = 0 THEN {"ok"} ELSE StoreOutcomes(d)

\* performSync: db.saveHistoryBatch(result.history); a rejection is caught by
\* performSync, which logs it and returns
SyncSaveHistory ==
  /\ sync.pc = "saveHistory"
  /\ \E outcome \in BatchOutcomes(db, sync.result.history) :
       IF outcome = "ok"
       THEN /\ store' = [store EXCEPT !.history = putBatch(@, sync.result.history)]
            /\ sync' = [sync EXCEPT !.pc = "saveNotebook"]
       ELSE /\ sync' = [sync EXCEPT !.pc = "failed"]
            /\ UNCHANGED store
  /\ ui' = performSyncFinally(ui, sync')
  /\ UNCHANGED <<rIndex, rPages, now, push, handler, inflight, count, enabled, db, rDirs,
                call, push0, sync0, deviceB>>

\* performSync: db.saveNotebookBatch(result.notebook)
SyncSaveNotebook ==
  /\ sync.pc = "saveNotebook"
  /\ \E outcome \in BatchOutcomes(db, sync.result.notebook) :
       IF outcome = "ok"
       THEN /\ store' = [store EXCEPT !.notebook = putBatch(@, sync.result.notebook)]
            /\ sync' = [sync EXCEPT !.pc = "reload"]
       ELSE /\ sync' = [sync EXCEPT !.pc = "failed"]
            /\ UNCHANGED store
  /\ ui' = performSyncFinally(ui, sync')
  /\ UNCHANGED <<rIndex, rPages, now, push, handler, inflight, count, enabled, db, rDirs,
                call, push0, sync0, deviceB>>

\* performSync: getHistoryPaged(0, 50) and getNotebookPaged(0, 50) are
\* answered; the displayed lists are replaced, then the sync is over; when one
\* of them rejects the sync has failed and the lists stay
SyncReload ==
  /\ sync.pc = "reload"
  /\ \E outcome \in StoreOutcomes(db) :
       IF outcome = "ok"
       THEN /\ sync' = [sync EXCEPT !.pc = "done"]
            /\ ui' = performSyncFinally(performSyncReload(ui, store), sync')
       ELSE /\ sync' = [sync EXCEPT !.pc = "failed"]
            /\ ui' = performSyncFinally(ui, sync')
  /\ UNCHANGED <<store, rIndex, rPages, now, push, handler, inflight, count, enabled, db,
                rDirs, call, push0, sync0, deviceB>>

\* ------------------------------------------------------------ incremental push

\* pushDataType that first fetches remote page 0 and merges it into the local
\* set, as syncDataType does
pushDataTypeMerged(s, t) ==
  LET merged == MergeById(RecordsOf(PageFile(s.type, 0)), s.local[s.type])
      up == paginateRecords(merged, t)
  IN IF Len(up.pages) > 0
     THEN [s EXCEPT !.pages = up.pages, !.index = up.index, !.pending = {0},
                    !.pc = "putPage0",
                    !.log = @ \o <<Ev("GET", 0, "ok"), Ev("PUT", 0, "issued")>>]
     ELSE [s EXCEPT !.pages = up.pages, !.index = up.index, !.pending = {},
                    !.pc = "typeDone", !.log = @ \o <<Ev("GET", 0, "ok")>>]

\* pushDataType up to its first await: paginate; with at least one page the PUT
\* of page 0 is issued, with none nothing is uploaded and pushDataType returns
pushDataType(s, t) ==
  LET up == paginateRecords(s.local[s.type], t)
  IN IF Len(up.pages) > 0
     THEN [s EXCEPT !.pages = up.pages, !.index = up.index, !.pending = {0},
                    !.pc = "putPage0",
                    !.log = @ \o <<Ev("PUT", 0, "issued")>>]
     ELSE [s EXCEPT !.pages = up.pages, !.index = up.index, !.pending = {},
                    !.pc = "typeDone"]

\* a page PUT of the push was answered 2xx: after page 0 the other pages are
\* issued together, after the last page the index PUT is issued
pushPagePutDone(s, n) ==
  LET rest == PageNumbers(s.pages) \ {0}
      left == IF s.pc = "putPage0" THEN rest ELSE s.pending \ {n}
  IN [s EXCEPT !.pending = left,
               !.pc = IF left = {} THEN "putIndex" ELSE "putRest",
               !.log = (IF s.pc = "putPage0" THEN IssuePuts(@ \o <<Ev("PUT", n, "ok")>>, rest)
                                ELSE @ \o <<Ev("PUT", n, "ok")>>) \o
                 (IF left = {} THEN <<Ev("PUT", IndexFile, "issued")>> ELSE <<>>)]

\* the index PUT was answered 2xx: pushDataType returns
pushTypeDone(s) ==
  [s EXCEPT !.pc = "typeDone", !.log = @ \o <<Ev("PUT", IndexFile, "ok")>>,
            !.uploaded[s.type] = [local |-> s.local[s.type], pages |-> s.pages,
                                  index |-> s.index]]

\* pushChanges after pushDataType has returned: on to the notebook, or return
pushChanges(s) ==
  [s EXCEPT !.pages = <<>>, !.index = Null, !.log = <<>>,
            !.type = "notebook",
            !.pc = IF s.type = "history" THEN "begin" ELSE "done"]

\* pushChanges: initializeDirectories, then pushDataType('history')
PushInitDirs ==
  /\ push.pc = "dirs"
  /\ \E resps \in MkcolRuns(rDirs) :
       /\ rDirs' = DirsAfter(resps, rDirs)
       /\ push' = IF initializeDirectories(resps) = "resolved"
                  THEN [push EXCEPT !.pc = "begin", !.type = "history"]
                  ELSE [push EXCEPT !.pc = "failed"]
  /\ UNCHANGED <<store, rIndex, rPages, now, sync, handler, inflight, count, enabled, ui, db,
                call, push0, sync0, deviceB>>

\* pushDataType is entered for push.type
PushBegin ==
  /\ push.pc = "begin"
  /\ push' = pushDataType(push, now)
  /\ UNCHANGED <<store, rIndex, rPages, now, sync, handler, inflight, count, enabled, ui, db,
                rDirs, call, push0, sync0, deviceB>>

\* pushChanges resumes after pushDataType has returned
PushReturn ==
  /\ push.pc = "typeDone"
  /\ push' = pushChanges(push)
  /\ UNCHANGED <<store, rIndex, rPages, now, sync, handler, inflight, count, enabled, ui, db,
                rDirs, call, push0, sync0, deviceB>>

\* putPage of the push: one pending page PUT is answered
PushPutPage ==
  /\ push.pc \in {"putPage0", "putRest"}
  /\ \E n \in push.pending :
       \/ /\ DirOf(push.type) \in rDirs
          /\ rPages' = [rPages EXCEPT ![push.type] =
                          putPage(@, PageByNumber(push.pages, n))]
          /\ push' = pushPagePutDone(push, n)
          /\ sync' = Disturb(sync)
          /\ UNCHANGED inflight
       \/ /\ push' = putFailed(push, n)
          /\ inflight' = inflight \cup Orphans(push, n)
          /\ UNCHANGED <<rPages, sync>>
  /\ UNCHANGED <<store, rIndex, now, handler, count, enabled, ui, db, rDirs, call, push0,
                sync0, deviceB>>

\* putPageIndex of the push: the index PUT is answered
PushPutIndex ==
  /\ push.pc = "putIndex"
  /\ \/ /\ DirOf(push.type) \in rDirs
        /\ rIndex' = [rIndex EXCEPT ![push.type] = push.index]
        /\ push' = pushTypeDone(push)
        /\ sync' = Disturb(sync)
     \/ /\ push' = putFailed(push, IndexFile)
        /\ UNCHANGED <<rIndex, sync>>
  /\ UNCHANGED <<store, rPages, now, handler, inflight, count, enabled, ui, db, rDirs, call,
                push0, sync0, deviceB>>

\* ------------------------------------------------------------ the application

\* the records the user deletes in a behaviour
DeleteStride == 100
Deletable(st) == {i \in DOMAIN st : i <= MaxSmallId \/ i % DeleteStride = 0}

\* crypto.randomUUID(): an id no store or page holds
FreshId == MaxKey - count

\* handleDeleteHistory / handleDeleteNotebookEntry up to the end of db.delete
DeleteRecord(t, id) ==
  /\ handler.pc = "idle"
  /\ push.pc \in Terminal /\ sync.pc \in Terminal /\ inflight = {}
  /\ count < MaxOps
  /\ id \in Deletable(store[t])
  /\ store' = [store EXCEPT ![t] = delete(@, id)]
  /\ now' \in Clock
  /\ handler' = [pc |-> "written", kind |-> "delete", type |-> t, id |-> id]
  /\ sync' = SyncIdle
  /\ push' = [PushIdle EXCEPT !.prev = push.uploaded]
  /\ count' = count + 1
  /\ UNCHANGED <<rIndex, rPages, inflight, enabled, ui, db, rDirs, call, push0, sync0, deviceB>>

\* handleSaveGap up to the end of db.saveNotebookEntry
SaveNotebookEntry ==
  /\ handler.pc = "idle"
  /\ push.pc \in Terminal /\ sync.pc \in Terminal /\ inflight = {}
  /\ count < MaxOps
  /\ now' \in Clock
  /\ store' = [store EXCEPT !.notebook = put(@, Rec(FreshId, now', 1))]
  /\ handler' = [pc |-> "written", kind |-> "save", type |-> "notebook", id |-> FreshId]
  /\ sync' = SyncIdle
  /\ push' = [PushIdle EXCEPT !.prev = push.uploaded]
  /\ count' = count + 1
  /\ UNCHANGED <<rIndex, rPages, inflight, enabled, ui, db, rDirs, call, push0, sync0, deviceB>>

\* the rest of the handler: read both collections again and call
\* webdav.pushChanges without awaiting it
HandlerPush ==
  /\ handler.pc = "written"
  /\ push' = [PushIdle EXCEPT !.pc = pushChangesEntry(enabled),
                              !.local = [t \in DataTypes |-> getAll(store[t])],
                              !.trigger = [kind |-> handler.kind, type |-> handler.type,
                                           id |-> handler.id],
                              !.alone = (sync.pc \in Terminal /\ inflight = {}),
                              !.dirsBefore = rDirs,
                              !.before = [index |-> rIndex, pages |-> rPages],
                              !.prev = push.prev]
  /\ handler' = HandlerIdle
  /\ UNCHANGED <<store, rIndex, rPages, now, sync, inflight, count, enabled, ui, db, rDirs,
                call, push0, sync0, deviceB>>

\* ------------------------------------------------------------ the environment

\* a page PUT left on the wire by a failed invocation is answered
InflightPut ==
  /\ \E req \in inflight :
       /\ inflight' = inflight \ {req}
       /\ \/ /\ DirOf(req.type) \in rDirs
             /\ rPages' = [rPages EXCEPT ![req.type] = putPage(@, req.page)]
             /\ sync' = Disturb(sync)
             /\ push' = Disturb(push)
          \/ UNCHANGED <<rPages, sync, push>>
  /\ UNCHANGED <<store, rIndex, now, handler, count, enabled, ui, db, rDirs, call, push0,
                sync0, deviceB>>

\* another device uploads its collection t (uploadAllPages there, every PUT
\* answered 2xx) while this app instance has no invocation running
PeerUpload(t) ==
  /\ sync.pc \in Terminal /\ push.pc \in Terminal /\ handler.pc = "idle"
  /\ inflight = {}
  /\ count < MaxOps
  /\ now' \in Clock
  /\ \E st \in PeerSets(t) :
       LET up == paginateRecords(getAll(st), now')
       IN /\ rPages' = [rPages EXCEPT ![t] =
                          [n \in PageNumbers(up.pages) |-> PageByNumber(up.pages, n)] @@ @]
          /\ rIndex' = [rIndex EXCEPT ![t] = up.index]
  /\ rDirs' = AllDirs
  /\ sync' = Disturb(sync)
  /\ push' = Disturb(push)
  /\ count' = count + 1
  /\ UNCHANGED <<store, handler, inflight, enabled, ui, db, call, push0, sync0, deviceB>>

\* ------------------------------------------------------------ specification

Next ==
  \/ StartSync
  \/ SyncInitDirs
  \/ SyncGetIndex
  \/ SyncGetPage0
  \/ SyncDownloadPage
  \/ SyncPutPage
  \/ SyncPutIndex
  \/ SyncReturn
  \/ SyncSaveHistory
  \/ SyncSaveNotebook
  \/ SyncReload
  \/ PushInitDirs
  \/ PushBegin
  \/ PushPutPage
  \/ PushPutIndex
  \/ PushReturn
  \/ \E t \in DataTypes : \E id \in DOMAIN store[t] : DeleteRecord(t, id)
  \/ SaveNotebookEntry
  \/ HandlerPush
  \/ InflightPut
  \/ \E t \in DataTypes : PeerUpload(t)

Spec == Init /\ [][Next]_vars

\* ------------------------------------------------------------ interleavings

\* performSync has stored the result of collection t
Stored(s, t) ==
  \/ s.pc \in {"reload", "done"}
  \/ t = "history" /\ s.pc = "saveNotebook"

\* handleDeleteHistory / handleDeleteNotebookEntry up to the end of db.delete,
\* called while a full sync is in flight
DeleteRecordDuringSync(t, id) ==
  /\ handler.pc = "idle"
  /\ sync.pc \notin Terminal /\ push.pc \in Terminal
  /\ count < MaxOps
  /\ id \in Deletable(store[t])
  /\ store' = [store EXCEPT ![t] = delete(@, id)]
  /\ now' \in Clock
  /\ handler' = [pc |-> "written", kind |-> "delete", type |-> t, id |-> id]
  /\ sync' = [sync EXCEPT !.extra[t] = @ \ {id},
                          !.gone[t] = IF Stored(sync, t) THEN @ \cup {id} ELSE @,
                          !.deleted[t] = @ \cup {id}]
  /\ push' = [PushIdle EXCEPT !.prev = push.uploaded]
  /\ count' = count + 1
  /\ UNCHANGED <<rIndex, rPages, inflight, enabled, ui, db, rDirs, call, push0, sync0, deviceB>>

\* handleSaveGap up to the end of db.saveNotebookEntry, called while a full
\* sync is in flight
SaveNotebookEntryDuringSync ==
  /\ handler.pc = "idle"
  /\ sync.pc \notin Terminal /\ push.pc \in Terminal
  /\ count < MaxOps
  /\ now' \in Clock
  /\ store' = [store EXCEPT !.notebook = put(@, Rec(FreshId, now', 1))]
  /\ handler' = [pc |-> "written", kind |-> "save", type |-> "notebook", id |-> FreshId]
  /\ sync' = [sync EXCEPT !.extra.notebook = @ \cup {FreshId},
                          !.gone.notebook = @ \ {FreshId}]
  /\ push' = [PushIdle EXCEPT !.prev = push.uploaded]
  /\ count' = count + 1
  /\ UNCHANGED <<rIndex, rPages, inflight, enabled, ui, db, rDirs, call, push0, sync0, deviceB>>

\* performSync (the manual sync button) called while an incremental push is in
\* flight
StartSyncDuringPush ==
  /\ sync.pc \in Terminal
  /\ handler.pc = "idle" /\ push.pc \notin Terminal
  /\ count < MaxOps
  /\ now' \in Clock
  /\ sync' = [SyncIdle EXCEPT !.pc = syncDataEntry(enabled),
                              !.local = [t \in DataTypes |-> getAll(store[t])],
                              !.result = IF enabled THEN NoRecords
                                         ELSE [t \in DataTypes |-> getAll(store[t])],
                              !.before = [index |-> rIndex, pages |-> rPages],
                              !.localBefore = store,
                              !.dirsBefore = rDirs,
                              !.alone = FALSE]
  /\ ui' = [ui EXCEPT !.isSyncing = TRUE]
  /\ count' = count + 1
  /\ UNCHANGED <<store, rIndex, rPages, push, handler, inflight, enabled, db, rDirs, call,
                push0, sync0, deviceB>>

\* the app starts with remote sync enabled and a small or a two-page history
InitConcurrent ==
  /\ store \in {[history |-> h, notebook |-> n] :
                  h \in SmallStores \cup {LocalStore(1..150)}, n \in NotebookStores}
  /\ rIndex = [t \in DataTypes |-> Null]
  /\ rPages = [t \in DataTypes |-> <<>>]
  /\ now = StartTime
  /\ sync = SyncIdle
  /\ push = PushIdle
  /\ handler = HandlerIdle
  /\ inflight = {}
  /\ count = 0
  /\ enabled = TRUE
  /\ ui = UiStart
  /\ db = "open"
  /\ rDirs = {}
  /\ call = CallNone
  /\ push0 = PushIdle
  /\ sync0 = SyncIdle
  /\ deviceB = DeviceIdle

NextConcurrent ==
  \/ Next
  \/ \E t \in DataTypes : \E id \in DOMAIN store[t] : DeleteRecordDuringSync(t, id)
  \/ SaveNotebookEntryDuringSync
  \/ StartSyncDuringPush

SpecConcurrent == InitConcurrent /\ [][NextConcurrent]_vars

\* ------------------------------------------------------------ pagination alone

\* the largest record set paginated on its own
MaxRecords == 205

\* allRecords.push(...page.records) over a sequence of pages
RECURSIVE Flatten(_)
Flatten(pages) ==
  IF pages = <<>> THEN <<>> ELSE pages[1].records \o Flatten(Tail(pages))

\* downloadAllPages with a loop that stops one page early
downloadAllButLast(index, files) ==
  Flatten([k \in 1..(Len(index.pages) - 1) |->
             [records |-> RecordsOf(IF index.pages[k].pageNumber \in DOMAIN files
                                    THEN getPage("ok", files[index.pages[k].pageNumber])
                                    ELSE getPage("404", Null))]])

\* downloadAllPages when every GET is answered 2xx (or 404 for a file that
\* does not exist): the records of the listed pages, in index order
downloadAllOk(index, files) ==
  Flatten([k \in DOMAIN index.pages |->
             [records |-> RecordsOf(IF index.pages[k].pageNumber \in DOMAIN files
                                    THEN getPage("ok", files[index.pages[k].pageNumber])
                                    ELSE getPage("404", Null))]])

\* a history of n records, handed over in key order, and an empty server
InitPaginate ==
  /\ \E n \in 0..MaxRecords :
       sync = [SyncIdle EXCEPT !.pc = "input",
                               !.local.history = [i \in 1..n |-> LocalRec(i)]]
  /\ store = [t \in DataTypes |-> <<>>]
  /\ rIndex = [t \in DataTypes |-> Null]
  /\ rPages = [t \in DataTypes |-> <<>>]
  /\ now = StartTime
  /\ push = PushIdle
  /\ handler = HandlerIdle
  /\ inflight = {}
  /\ count = 0
  /\ enabled = TRUE
  /\ ui = UiStart
  /\ db = "open"
  /\ rDirs = AllDirs
  /\ call = CallNone
  /\ push0 = PushIdle
  /\ sync0 = SyncIdle
  /\ deviceB = DeviceIdle

\* paginateRecords(records)
PaginateInput ==
  /\ sync.pc = "input"
  /\ LET up == paginateRecords(sync.local.history, now)
     IN sync' = [sync EXCEPT !.pc = "paginated", !.pages = up.pages, !.index = up.index]
  /\ UNCHANGED <<store, rIndex, rPages, now, push, handler, inflight, count, enabled, ui, db,
                rDirs, call, push0, sync0, deviceB>>

\* uploadAllPages of the paginated set, every PUT answered 2xx
UploadPaginated ==
  /\ sync.pc = "paginated"
  /\ rPages' = [rPages EXCEPT !.history =
                  [n \in PageNumbers(sync.pages) |-> PageByNumber(sync.pages, n)]]
  /\ rIndex' = [rIndex EXCEPT !.history = sync.index]
  /\ sync' = [sync EXCEPT !.pc = "uploaded"]
  /\ UNCHANGED <<store, now, push, handler, inflight, count, enabled, ui, db, rDirs, call,
                push0, sync0, deviceB>>

\* getPageIndex, then downloadAllPages of what it lists
DownloadUploaded ==
  /\ sync.pc = "uploaded"
  /\ LET remoteIndex == getPageIndex("ok", rIndex.history)
     IN sync' = [sync EXCEPT !.pc = "downloaded", !.remoteIndex = remoteIndex,
                             !.allRemoteRecords = downloadAllOk(remoteIndex, rPages.history)]
  /\ UNCHANGED <<store, rIndex, rPages, now, push, handler, inflight, count, enabled, ui, db,
                rDirs, call, push0, sync0, deviceB>>

NextPaginate == PaginateInput \/ UploadPaginated \/ DownloadUploaded

SpecPaginate == InitPaginate /\ [][NextPaginate]_vars

\* ------------------------------------------------------------ the local store alone

\* the methods of EchoDB called one at a time, as the application and the sync
\* call them; every call leaves its arguments, its outcome and the store it
\* found in call

\* ids 1..MaxStoreId: every subset of them is an initial history
MaxStoreId == 3
\* the number of EchoDB calls in a behaviour
MaxCalls == 2
\* offsets and limits of the paged reads
MaxOffset == 4

\* the records written: for every id the copy of this device and another copy,
\* which differs in timestamp and payload
PutRecords == {LocalRec(i) : i \in 1..MaxStoreId} \cup {PeerRec(i) : i \in 1..MaxStoreId}
\* the batches written: empty, one record, one id twice, two ids
PutBatches ==
  {<<>>, <<LocalRec(1)>>, <<PeerRec(2)>>,
   <<LocalRec(1), PeerRec(1)>>, <<PeerRec(1), LocalRec(MaxStoreId)>>}

\* the outcome of a call: what the returned promise did, the value it resolved
\* with, the database the call found
Called(op, t, outcome, result) ==
  [op |-> op, type |-> t, outcome |-> outcome, result |-> result,
   db |-> db, before |-> store[t]]

InitStore ==
  /\ store \in {[history |-> h, notebook |-> n] :
                  h \in {LocalStore(S) : S \in SUBSET (1..MaxStoreId)},
                  n \in NotebookStores}
  /\ db \in {"open", "failed"}
  /\ call = CallNone
  /\ push0 = PushIdle
  /\ sync0 = SyncIdle
  /\ deviceB = DeviceIdle
  /\ count = 0
  /\ rIndex = [t \in DataTypes |-> Null]
  /\ rPages = [t \in DataTypes |-> <<>>]
  /\ now = StartTime
  /\ sync = SyncIdle
  /\ push = PushIdle
  /\ handler = HandlerIdle
  /\ inflight = {}
  /\ enabled = FALSE
  /\ ui = UiStart
  /\ rDirs = {}

\* the page is loaded again: `export const db = new EchoDB()` runs openDB anew
Construct ==
  /\ count < MaxCalls
  /\ db' \in {"open", "failed"}
  /\ call' = [op |-> "open", outcome |-> IF db' = "open" THEN "ok" ELSE "fail"]
  /\ count' = count + 1
  /\ UNCHANGED <<store, rIndex, rPages, now, sync, push, handler, inflight, enabled, ui,
                rDirs, push0, sync0, deviceB>>

\* saveHistory / saveNotebookEntry
CallPut(t, r) ==
  /\ count < MaxCalls
  /\ \E outcome \in StoreOutcomes(db) :
       /\ store' = IF outcome = "ok" THEN [store EXCEPT ![t] = put(@, r)] ELSE store
       /\ call' = Called("put", t, outcome, <<>>) @@ [record |-> r]
  /\ count' = count + 1
  /\ UNCHANGED <<rIndex, rPages, now, sync, push, handler, inflight, enabled, ui, db, rDirs,
                push0, sync0, deviceB>>

\* saveHistoryBatch / saveNotebookBatch
CallPutBatch(t, records) ==
  /\ count < MaxCalls
  /\ \E outcome \in BatchOutcomes(db, records) :
       /\ store' = IF outcome = "ok" THEN [store EXCEPT ![t] = putBatch(@, records)] ELSE store
       /\ call' = Called("putBatch", t, outcome, <<>>) @@ [records |-> records]
  /\ count' = count + 1
  /\ UNCHANGED <<rIndex, rPages, now, sync, push, handler, inflight, enabled, ui, db, rDirs,
                push0, sync0, deviceB>>

\* deleteHistory / deleteNotebookEntry
CallDelete(t, id) ==
  /\ count < MaxCalls
  /\ \E outcome \in StoreOutcomes(db) :
       /\ store' = IF outcome = "ok" THEN [store EXCEPT ![t] = delete(@, id)] ELSE store
       /\ call' = Called("delete", t, outcome, <<>>) @@ [id |-> id]
  /\ count' = count + 1
  /\ UNCHANGED <<rIndex, rPages, now, sync, push, handler, inflight, enabled, ui, db, rDirs,
                push0, sync0, deviceB>>

\* getHistory / getNotebookEntries
CallGetAll(t) ==
  /\ count < MaxCalls
  /\ \E outcome \in StoreOutcomes(db) :
       call' = Called("getAll", t, outcome,
                      IF outcome = "ok" THEN getAll(store[t]) ELSE <<>>)
  /\ count' = count + 1
  /\ UNCHANGED <<store, rIndex, rPages, now, sync, push, handler, inflight, enabled, ui, db,
                rDirs, push0, sync0, deviceB>>

\* getHistoryPaged / getNotebookPaged
CallGetPaged(t, offset, limit) ==
  /\ count < MaxCalls
  /\ \E outcome \in StoreOutcomes(db) :
       call' = Called("getPaged", t, outcome,
                      IF outcome = "ok" THEN getPaged(store[t], offset, limit) ELSE <<>>)
                 @@ [offset |-> offset, limit |-> limit]
  /\ count' = count + 1
  /\ UNCHANGED <<store, rIndex, rPages, now, sync, push, handler, inflight, enabled, ui, db,
                rDirs, push0, sync0, deviceB>>

\* getHistoryCount / getNotebookCount
CallGetCount(t) ==
  /\ count < MaxCalls
  /\ \E outcome \in StoreOutcomes(db) :
       call' = Called("count", t, outcome,
                      IF outcome = "ok" THEN getCount(store[t]) ELSE 0)
  /\ count' = count + 1
  /\ UNCHANGED <<store, rIndex, rPages, now, sync, push, handler, inflight, enabled, ui, db,
                rDirs, push0, sync0, deviceB>>

NextStore ==
  \/ Construct
  \/ \E t \in DataTypes : \E r \in PutRecords : CallPut(t, r)
  \/ \E t \in DataTypes : \E records \in PutBatches : CallPutBatch(t, records)
  \/ \E t \in DataTypes : \E id \in 1..MaxStoreId : CallDelete(t, id)
  \/ \E t \in DataTypes : CallGetAll(t)
  \/ \E t \in DataTypes : \E offset \in 0..MaxOffset : \E limit \in 0..MaxOffset :
       CallGetPaged(t, offset, limit)
  \/ \E t \in DataTypes : CallGetCount(t)

SpecStore == InitStore /\ [][NextStore]_vars

\* ------------------------------------------------------------ the probe alone

\* a WebDAVConfig, as far as checkConnection looks at it: whether the text
\* username:password lies in Latin-1, the only text btoa encodes (it throws
\* InvalidCharacterError on any other)
Configs == {[latin1 |-> TRUE], [latin1 |-> FALSE]}

\* what this.config can hold: a configuration, or null unless sync is enabled
StoredConfigs(on) == IF on THEN Configs ELSE Configs \cup {Null}

\* the statuses the PROPFIND is answered with; 0 stands for a fetch that
\* throws (network failure)
ProbeStatuses == {0, 200, 207, 301, 401, 404, 405, 500}

\* response.ok
Ok(status) == status \in 200..299

\* checkConnection(config): what the returned promise does, "true" / "false"
\* when it resolves, "throws" when it rejects
checkConnection(arg, stored, status) ==
  LET targetConfig == IF arg # Null THEN arg ELSE stored
  IN IF targetConfig = Null THEN "false"
     ELSE IF ~targetConfig.latin1 THEN "throws"     \* btoa, before the try
     ELSE IF status = 0 THEN "false"                \* catch
     ELSE IF Ok(status) \/ status = 405 THEN "true" ELSE "false"

\* the app with or without remote sync, its server with or without files
InitProbe ==
  /\ store \in {[history |-> h, notebook |-> n] : h \in SmallStores, n \in NotebookStores}
  /\ enabled \in BOOLEAN
  /\ \/ /\ rIndex = [t \in DataTypes |-> Null]
        /\ rPages = [t \in DataTypes |-> <<>>]
        /\ rDirs = {}
     \/ \E st \in PeerSets("history") :
          LET up == paginateRecords(getAll(st), StartTime)
          IN /\ rIndex = [history |-> up.index, notebook |-> Null]
             /\ rPages = [history |-> [n \in PageNumbers(up.pages) |->
                                         PageByNumber(up.pages, n)],
                          notebook |-> <<>>]
             /\ rDirs = AllDirs
  /\ now = StartTime
  /\ sync = SyncIdle
  /\ push = PushIdle
  /\ handler = HandlerIdle
  /\ inflight = {}
  /\ count = 0
  /\ ui = UiStart
  /\ db = "open"
  /\ call = CallNone
  /\ push0 = PushIdle
  /\ sync0 = SyncIdle
  /\ deviceB = DeviceIdle

\* webdav.checkConnection(config) is called and its PROPFIND, if one is sent,
\* is answered
CallCheckConnection ==
  /\ count < MaxCalls
  /\ \E arg \in Configs \cup {Null}, stored \in StoredConfigs(enabled),
        status \in ProbeStatuses :
       call' = [op |-> "checkConnection", arg |-> arg, stored |-> stored,
                status |-> status, outcome |-> checkConnection(arg, stored, status),
                before |-> [store |-> store, rIndex |-> rIndex, rPages |-> rPages,
                            rDirs |-> rDirs]]
  /\ count' = count + 1
  /\ UNCHANGED <<store, rIndex, rPages, now, sync, push, handler, inflight, enabled, ui, db,
                rDirs, push0, sync0, deviceB>>

NextProbe == CallCheckConnection

SpecProbe == InitProbe /\ [][NextProbe]_vars

\* ------------------------------------------------------------ properties

\* what the log of an invocation says
Failed(log, op) == \E k \in DOMAIN log : log[k].op = op /\ log[k].res = "fail"
NoFailure(log) == ~Failed(log, "GET") /\ ~Failed(log, "PUT")
PutIssued(log) == \E k \in DOMAIN log : log[k].op = "PUT"
PutOk(log) == {log[k].file : k \in {j \in DOMAIN log : log[j].op = "PUT" /\ log[j].res = "ok"}}
Fetched(log) ==
  LET gets == SelectSeq(log, LAMBDA e : e.op = "GET" /\ e.file # IndexFile)
  IN [k \in DOMAIN gets |-> gets[k].file]

\* the remote collection t as it was when the running sync started
BeforeIndex(t) == sync.before.index[t]
BeforePage0(t) ==
  IF 0 \in DOMAIN sync.before.pages[t] THEN sync.before.pages[t][0].records ELSE <<>>
BeforeListed(t) == ListedRecordsOf(sync.before.index[t], sync.before.pages[t])

CeilDiv(n, d) == (n + d - 1) \div d
RECURSIVE SumCounts(_)
SumCounts(metas) ==
  IF metas = <<>> THEN 0 ELSE metas[1].recordCount + SumCounts(Tail(metas))

\* the record of sequence M holding each id (the last one, should an id repeat)
ById(M) == LET last == LastIdx(M, 1, Len(M)) IN [i \in DOMAIN last |-> M[last[i]]]

\* every record of page a is at least as recent as every record of page b
NewerPage(a, b) ==
  \A i \in DOMAIN a.records : \A j \in DOMAIN b.records :
    a.records[i].timestamp >= b.records[j].timestamp

\* C1: after a full sync of a collection has completed with every request
\* answered 2xx or 404 and no other writer active, the returned set and the
\* pages listed by the new remote index hold every id of the local input and
\* every id the pages listed by the previous remote index held.
C1_SyncKeepsEveryRecord ==
  (sync.pc = "typeDone" /\ sync.alone /\ NoFailure(sync.log)) =>
    LET t == sync.type
        want == Ids(sync.local[t]) \cup RecIds(BeforeListed(t))
    IN /\ want \subseteq Ids(sync.ret)
       /\ want \subseteq RecIds(ListedRecords(t))

\* C2: a failed fetch of the remote index or of a remote page makes the sync
\* fail, and the invocation issues no PUT for that collection.
C2_FetchFailureAbortsSync ==
  Failed(sync.log, "GET") => (sync.pc = "failed" /\ ~PutIssued(sync.log))

\* C3: in both merge steps of syncDataType, an id held by the local input and
\* by the remote records keeps the local copy.
LocalWins(L, R, M) ==
  LET byId == ById(M)
  IN \A i \in DOMAIN L :
       L[i].id \in Ids(R) => (L[i].id \in DOMAIN byId /\ byId[L[i].id] = L[i])
C3_LocalPrecedence ==
  /\ sync.merged0 => LocalWins(sync.local[sync.type], sync.remote0, sync.out0)
  /\ sync.mergedAll => LocalWins(sync.local[sync.type], sync.remoteAll, sync.outAll)

\* both merge steps ran on ids held on both sides, the local copy being the
\* newer one for some id and the older one for another
Collides(L, R) ==
  /\ \E i \in DOMAIN L, j \in DOMAIN R :
       L[i].id = R[j].id /\ L[i].timestamp > R[j].timestamp
  /\ \E i \in DOMAIN L, j \in DOMAIN R :
       L[i].id = R[j].id /\ L[i].timestamp < R[j].timestamp
C3_Witness ==
  /\ sync.merged0 /\ Collides(sync.local[sync.type], sync.remote0)
  /\ sync.mergedAll /\ Collides(sync.local[sync.type], sync.remoteAll)

\* C4: each merge step yields exactly one record per id, and its ids are the
\* ids of the local input together with the ids of the remote records.
MergeUnion(L, R, M) ==
  /\ Ids(M) = Ids(L) \cup Ids(R)
  /\ Cardinality(Ids(M)) = Len(M)
C4_MergeUnion ==
  /\ sync.merged0 => MergeUnion(sync.local[sync.type], sync.remote0, sync.out0)
  /\ sync.mergedAll => MergeUnion(sync.local[sync.type], sync.remoteAll, sync.outAll)

\* a full merge of sets that overlap and each hold ids the other lacks
C4_Witness ==
  /\ sync.mergedAll
  /\ Ids(sync.local[sync.type]) \cap Ids(sync.remoteAll) # {}
  /\ Ids(sync.local[sync.type]) \ Ids(sync.remoteAll) # {}
  /\ Ids(sync.remoteAll) \ Ids(sync.local[sync.type]) # {}

\* C5: in the log of every sync and push, the index PUT is issued after every
\* page PUT of the invocation was issued and answered 2xx, for every page of
\* the upload; after a failed page PUT no index PUT is issued.
IndexAfterPages(log, pages) ==
  \A k \in DOMAIN log :
    (log[k].op = "PUT" /\ log[k].file = IndexFile /\ log[k].res = "issued") =>
      /\ \A j \in DOMAIN log :
           (log[j].op = "PUT" /\ log[j].file # IndexFile) =>
             /\ j < k
             /\ log[j].res # "fail"
             /\ \E m \in j..k : log[m] = Ev("PUT", log[j].file, "ok")
      /\ \A n \in PageNumbers(pages) :
           \E m \in 1..k : log[m] = Ev("PUT", n, "ok")
C5_IndexPutAfterPagePuts ==
  /\ IndexAfterPages(sync.log, sync.pages)
  /\ IndexAfterPages(push.log, push.pages)

\* an index PUT issued after the PUTs of two pages
C5_Witness ==
  /\ sync.pc = "putIndex" /\ Len(sync.pages) = 2
  /\ PutOk(sync.log) = {0, 1}

\* C6: when pushDataType returns without error, the push has uploaded page 0
\* and, after it, an index whose totalRecords is the size of the local set.
C6_PushUploadsPage0AndIndex ==
  push.pc = "typeDone" =>
    /\ 0 \in PutOk(push.log)
    /\ push.log # <<>> /\ push.log[Len(push.log)] = Ev("PUT", IndexFile, "ok")
    /\ rIndex[push.type] # Null
    /\ rIndex[push.type].totalRecords = Len(push.local[push.type])

\* C7: once the push started by the deletion of record x has completed with no
\* other writer active, neither page_0.json nor any page the remote index
\* lists holds x.
C7_DeletedRecordLeavesRemote ==
  (push.pc = "done" /\ push.alone /\ push.trigger.kind = "delete") =>
    LET t == push.trigger.type
        x == push.trigger.id
    IN /\ x \notin Ids(RecordsOf(PageFile(t, 0)))
       /\ x \notin RecIds(ListedRecords(t))

\* C8: every index.json a sync or a push is about to PUT has pageSize 100,
\* totalRecords equal to the sum of its pages' recordCount and totalPages =
\* ceil(totalRecords / pageSize).
IndexConsistent(ix) ==
  /\ ix.pageSize = 100
  /\ ix.totalRecords = SumCounts(ix.pages)
  /\ ix.totalPages = CeilDiv(ix.totalRecords, ix.pageSize)
C8_IndexTotals ==
  /\ sync.pc = "putIndex" => IndexConsistent(sync.index)
  /\ push.pc = "putIndex" => IndexConsistent(push.index)

\* a page set was uploaded in full and the index after it: the PUTs answered
\* 2xx are those of pages 0..totalPages-1 and, last, that of the index
UploadedAll(log, ix) ==
  /\ PutOk(log) = (0..(ix.totalPages - 1)) \cup {IndexFile}
  /\ log[Len(log)] = Ev("PUT", IndexFile, "ok")

\* syncDataType has returned for a collection whose index GET was answered 404
BootstrapDone ==
  /\ sync.pc = "typeDone" /\ sync.alone
  /\ sync.log[1] = Ev("GET", IndexFile, "404")

Repaginated(t) ==
  LET L == sync.local[t]
      listed == BeforeIndex(t).pages
      ids == Ids(L) \cup RecIds(BeforeListed(t))
      m == Cardinality(ids)
      ix == rIndex[t]
  IN /\ Fetched(sync.log) = <<0>> \o [k \in DOMAIN listed |-> listed[k].pageNumber]
     /\ Ids(sync.ret) = ids
     /\ Len(sync.ret) = m
     /\ \A i \in DOMAIN L : ById(sync.ret)[L[i].id] = L[i]
     /\ ix # Null
     /\ UploadedAll(sync.log, ix)
     /\ ix.totalRecords = m
     /\ ix.totalPages = CeilDiv(m, PAGE_SIZE)
     /\ ListedRecords(t) = Elems(sync.ret)

\* syncDataType has returned for a collection whose remote index existed and
\* whose local records and remote page 0 held more than 100 ids together
RepaginationDue(t) ==
  /\ sync.pc = "typeDone" /\ sync.alone
  /\ BeforeIndex(t) # Null
  /\ Cardinality(Ids(BeforePage0(t)) \cup Ids(sync.local[t])) > PAGE_SIZE

\* C10: when the remote index exists and remote page 0 and the local set hold
\* more than 100 ids together, the sync downloads every listed page, merges
\* them all with the local set (local copies win), uploads every page of the
\* paginated merge and an index with totalRecords = m, totalPages =
\* ceil(m/100), and returns the merged set.
C10_FullRepagination == RepaginationDue(sync.type) => Repaginated(sync.type)

\* the same with every GET of the invocation answered 2xx or 404
C10_FullRepaginationNoFetchFailure ==
  (RepaginationDue(sync.type) /\ ~Failed(sync.log, "GET")) => Repaginated(sync.type)

\* Scenario C: 95 remote records and 10 new local ones give page_0 with 100
\* records, page_1 with 5 and totalPages = 2
C10_ScenarioC ==
  (RepaginationDue(sync.type) /\ ~Failed(sync.log, "GET")
     /\ Len(sync.local[sync.type]) = 10 /\ Len(BeforePage0(sync.type)) = 95) =>
    /\ rIndex[sync.type].totalPages = 2
    /\ Len(PageFile(sync.type, 0).records) = 100
    /\ Len(PageFile(sync.type, 1).records) = 5

\* C11: once a full sync invocation has failed, at whatever step, both local
\* collections are what they were when the invocation started.
C11_FailedSyncLeavesLocalStore ==
  sync.pc = "failed" => store = sync.localBefore

\* the remote collection t is consistent and holds the records of uploaded
RemoteConsistent(t, uploaded) ==
  LET ix == rIndex[t]
  IN /\ ix # Null
     /\ Len(ix.pages) = ix.totalPages
     /\ \A k \in DOMAIN ix.pages :
          /\ ix.pages[k].pageNumber = k - 1
          /\ PageFile(t, k - 1) # Null
          /\ PageFile(t, k - 1).pageNumber = k - 1
          /\ Len(PageFile(t, k - 1).records) = ix.pages[k].recordCount
     /\ ListedRecords(t) = Elems(uploaded)

\* syncDataType has returned from a bootstrap or a full repagination
FullUploadDone ==
  /\ sync.pc = "typeDone" /\ sync.alone
  /\ sync.path \in {"bootstrap", "repaginate"}

\* C13: right after a bootstrap or full-repagination upload has completed with
\* no other writer, the index lists pages 0..totalPages-1, each listed page
\* file exists, carries its own number and holds recordCount records, and the
\* listed pages together hold exactly the uploaded set.
C13_RemoteConsistentAfterUpload ==
  FullUploadDone => RemoteConsistent(sync.type, sync.ret)

\* a full repagination into two pages has completed
C13_Witness ==
  /\ FullUploadDone /\ sync.path = "repaginate"
  /\ rIndex[sync.type].totalPages = 2

SortedDesc(recs) ==
  \A i \in 1..(Len(recs) - 1) : recs[i].timestamp >= recs[i + 1].timestamp
Min(a, b) == IF a < b THEN a ELSE b

\* the pages, taken in page order, are sorted by timestamp descending
Ordered(pages) ==
  /\ \A k \in DOMAIN pages : pages[k].pageNumber = k - 1
  /\ SortedDesc(Flatten(pages))
  /\ \A k \in 1..(Len(pages) - 1) : NewerPage(pages[k], pages[k + 1])
  /\ pages # <<>> => Len(pages[1].records) = Min(Len(Flatten(pages)), PAGE_SIZE)

\* C16: every page set a sync or a push uploads is, concatenated in page
\* order, sorted by timestamp descending; the oldest record of page k is at
\* least as recent as the newest of page k+1, and page 0 holds the min(n, 100)
\* most recent records.
C16_PagesOrdered == Ordered(sync.pages) /\ Ordered(push.pages)

\* two pages are being uploaded whose records at the page boundary have the
\* same timestamp
C16_Witness ==
  /\ sync.pc = "putPages" /\ Len(sync.pages) = 2
  /\ sync.pages[1].records[PAGE_SIZE].timestamp = sync.pages[2].records[1].timestamp

\* C19: a full sync of an empty local collection whose index GET is answered
\* 404 PUTs no page file, PUTs an index with totalPages 0, totalRecords 0 and
\* no page entry, and returns the empty set.
C19_EmptyBootstrap ==
  (BootstrapDone /\ sync.local[sync.type] = <<>>) =>
    /\ \A k \in DOMAIN sync.log : sync.log[k].op = "PUT" => sync.log[k].file = IndexFile
    /\ sync.log[Len(sync.log)] = Ev("PUT", IndexFile, "ok")
    /\ rIndex[sync.type] # Null
    /\ rIndex[sync.type].totalPages = 0
    /\ rIndex[sync.type].totalRecords = 0
    /\ rIndex[sync.type].pages = <<>>
    /\ sync.ret = <<>>

\* the bootstrap of an empty history has completed
C19_Witness ==
  BootstrapDone /\ sync.type = "history" /\ sync.local.history = <<>>

\* C20: while remote sync is not enabled, syncData hands back the local sets it
\* was given and neither it nor pushChanges issues a request: no invocation is
\* ever at a MKCOL, GET or PUT, and no PUT is on the wire.
C20_DisabledIssuesNoRequest ==
  ~enabled =>
    /\ sync.pc \in {"idle", "saveHistory", "saveNotebook", "reload", "done", "failed"}
    /\ sync.result = sync.local
    /\ push.pc \in {"idle", "done"}
    /\ sync.log = <<>> /\ push.log = <<>>
    /\ inflight = {}

\* with remote sync not enabled, a sync of a history that is not empty has
\* stored its result
C20_Witness ==
  ~enabled /\ sync.pc = "done" /\ sync.local.history # <<>>

\* pushDataType has uploaded collection t, and the push before it had uploaded
\* the same local set of t
SamePushAgain(t) ==
  /\ push.pc = "typeDone" /\ push.type = t
  /\ push.uploaded[t] # Null /\ push.prev[t] # Null
  /\ push.prev[t].local = push.local[t]

\* an index without the times it was stamped with
Unstamped(ix) ==
  [ix EXCEPT !.lastSyncTime = 0,
             !.pages = [k \in DOMAIN ix.pages |-> [ix.pages[k] EXCEPT !.lastModified = 0]]]

\* C18: two pushes of the same local set, made at different times, upload the
\* same page files and the same index file.
C18_PushIdempotent ==
  SamePushAgain(push.type) =>
    /\ push.uploaded[push.type].pages = push.prev[push.type].pages
    /\ push.uploaded[push.type].index = push.prev[push.type].index

\* C18 as amended: two pushes of the same local set upload the same page files,
\* and index files that agree in everything but lastSyncTime and the pages'
\* lastModified.
C18_PushIdempotentButTimes ==
  SamePushAgain(push.type) =>
    /\ push.uploaded[push.type].pages = push.prev[push.type].pages
    /\ Unstamped(push.uploaded[push.type].index) = Unstamped(push.prev[push.type].index)

\* the same history of at least one record has been pushed twice
C18_Witness ==
  SamePushAgain("history") /\ push.local.history # <<>>

\* C15: paginateRecords of n records yields ceil(n / 100) pages numbered
\* 0..totalPages-1, every page but the last holding 100 records and the last at
\* least one, with recordCount entries summing to n; no record yields no page.
C15_PaginationInvariant ==
  sync.pc \in {"paginated", "uploaded", "downloaded"} =>
    LET n == Len(sync.local.history)
        pages == sync.pages
        ix == sync.index
    IN /\ Len(pages) = CeilDiv(n, PAGE_SIZE)
       /\ ix.totalPages = CeilDiv(n, PAGE_SIZE)
       /\ ix.totalRecords = n
       /\ Len(ix.pages) = Len(pages)
       /\ \A k \in DOMAIN pages :
            /\ pages[k].pageNumber = k - 1
            /\ ix.pages[k].pageNumber = k - 1
            /\ ix.pages[k].recordCount = Len(pages[k].records)
            /\ k < Len(pages) => Len(pages[k].records) = PAGE_SIZE
            /\ Len(pages[k].records) \in 1..PAGE_SIZE
       /\ SumCounts(ix.pages) = n
       /\ n = 0 => pages = <<>>

\* a set of exactly two full pages has been paginated
C15_Witness == sync.pc = "paginated" /\ Len(sync.local.history) = 2 * PAGE_SIZE

\* C17: uploading the paginated input and then downloading and flattening the
\* pages its index lists gives back the input: the same records, each once.
C17_RoundTrip ==
  sync.pc = "downloaded" =>
    /\ Elems(sync.allRemoteRecords) = Elems(sync.local.history)
    /\ Len(sync.allRemoteRecords) = Len(sync.local.history)

\* a set spanning three pages has made the round trip
C17_Witness == sync.pc = "downloaded" /\ Len(sync.local.history) > 2 * PAGE_SIZE

UniqueIds(recs) == Cardinality(Ids(recs)) = Len(recs)

\* the records of the pages the remote index of t lists, one after the other
ListedSeq(t) ==
  IF rIndex[t] = Null THEN <<>>
  ELSE Flatten([k \in DOMAIN rIndex[t].pages |->
                  [records |-> RecordsOf(PageFile(t, rIndex[t].pages[k].pageNumber))]])

\* C14: in every state no id occurs twice among the records of the pages a
\* remote index lists, and no id occurs twice in a local collection.
C14_IdsUnique ==
  \A t \in DataTypes :
    /\ UniqueIds(ListedSeq(t))
    /\ UniqueIds(storeGetAll(store[t]))

\* an upload of collection t has just completed with no other writer
UploadCompleted(t) ==
  \/ sync.pc = "typeDone" /\ sync.type = t /\ sync.alone
  \/ push.pc = "typeDone" /\ push.type = t /\ push.alone /\ push.uploaded[t] # Null

\* C14 as amended: in every state no id occurs twice in a local collection nor
\* within one remote page file; among the pages the index lists no id occurs
\* twice right after an upload of the collection has completed with no other
\* writer.
C14_IdsUniquePerFile ==
  \A t \in DataTypes :
    /\ UniqueIds(storeGetAll(store[t]))
    /\ \A n \in DOMAIN rPages[t] : UniqueIds(rPages[t][n].records)
    /\ UploadCompleted(t) => UniqueIds(ListedSeq(t))

\* a full sync and an incremental push are uploading two pages of the same
\* collection at the same time
C14_Witness ==
  /\ sync.pc \in {"putPages", "putIndex"} /\ Len(sync.pages) = 2
  /\ push.pc \in {"putPage0", "putRest", "putIndex"} /\ Len(push.pages) = 2
  /\ sync.type = push.type

\* a call of op on the store that resolved
Resolved(op) == call.op = op /\ call.outcome = "ok"

\* all[offset : offset + limit], written out position by position
Window(all, offset, limit) ==
  LET last == Min(offset + limit, Len(all))
  IN [k \in 1..(IF last > offset THEN last - offset ELSE 0) |-> all[offset + k]]

\* C21: a resolved getAll returns every record of the collection, each once,
\* sorted by timestamp descending; a resolved getPaged(offset, limit) returns
\* positions offset..offset+limit-1 of that sequence (nothing when offset is
\* past the end); neither read changes the store.
C21_StoreReads ==
  /\ Resolved("getAll") =>
       /\ SortedDesc(call.result)
       /\ Elems(call.result) = {call.before[i] : i \in DOMAIN call.before}
       /\ Len(call.result) = Cardinality(DOMAIN call.before)
       /\ store[call.type] = call.before
  /\ Resolved("getPaged") =>
       /\ call.result = Window(getAll(call.before), call.offset, call.limit)
       /\ call.offset >= Len(getAll(call.before)) => call.result = <<>>
       /\ store[call.type] = call.before
  /\ call.op \in {"getAll", "getPaged"} => store[call.type] = call.before

\* a paged read from the middle of three records that reaches past the end
C21_Witness ==
  /\ Resolved("getPaged") /\ Cardinality(DOMAIN call.before) = 3
  /\ call.offset = 1 /\ call.limit > 2
  /\ Len(call.result) = 2

\* how many records of recs carry id
Occurrences(recs, id) == Len(SelectSeq(recs, LAMBDA x : x.id = id))

\* C22: after a resolved put(r) the collection holds one record of id r.id,
\* equal to r, and every other record as before; putting r once more changes
\* nothing; a resolved count returns the number of distinct ids stored; a
\* resolved delete(id) removes that id and nothing else; a rejected put or
\* delete leaves the collection as it was.
C22_PutUpsert ==
  LET st == store[call.type]
  IN /\ Resolved("put") =>
          /\ DOMAIN st = DOMAIN call.before \cup {call.record.id}
          /\ st[call.record.id] = call.record
          /\ Occurrences(storeGetAll(st), call.record.id) = 1
          /\ \A i \in DOMAIN call.before \ {call.record.id} : st[i] = call.before[i]
          /\ put(st, call.record) = st
     /\ Resolved("count") =>
          call.result = Cardinality(Ids(storeGetAll(call.before)))
     /\ Resolved("delete") =>
          /\ DOMAIN st = DOMAIN call.before \ {call.id}
          /\ \A i \in DOMAIN st : st[i] = call.before[i]
     /\ (call.op \in {"put", "delete"} /\ call.outcome = "fail") => st = call.before

\* a put has replaced the record of an id that was stored with another
\* timestamp and payload, next to a record of another id
C22_Witness ==
  /\ Resolved("put")
  /\ call.record.id \in DOMAIN call.before
  /\ call.before[call.record.id] # call.record
  /\ Cardinality(DOMAIN call.before) >= 2

\* C23: every EchoDB method called while the open is rejected (put, putBatch
\* of any batch, the empty one included, getAll, getPaged, count, delete)
\* rejects (so that it returns no data) and leaves the store as it was.
C23_FailedOpenBlocksEveryCall ==
  (call.op \notin {"none", "open"} /\ call.db = "failed") =>
    /\ call.outcome = "fail"
    /\ store[call.type] = call.before

\* C25: whatever the three MKCOLs are answered, 405 for a directory that
\* exists included, initializeDirectories returns and the sync goes on to the
\* index of the history, the push to the pagination of the history, exactly as
\* after 201; the step changes no remote file and removes no directory.
C25_DirectoryCreationIdempotent ==
  [][/\ (sync.pc = "dirs" /\ sync' # sync) =>
          /\ sync' = [sync EXCEPT !.pc = "getIndex"]
          /\ rIndex' = rIndex /\ rPages' = rPages /\ rDirs \subseteq rDirs'
     /\ (push.pc = "dirs" /\ push' # push) =>
          /\ push' = [push EXCEPT !.pc = "begin"]
          /\ rIndex' = rIndex /\ rPages' = rPages /\ rDirs \subseteq rDirs']_vars

\* a full sync that found all three directories on the server has uploaded
\* the history
C25_Witness ==
  /\ sync.pc = "typeDone" /\ sync.type = "history"
  /\ sync.dirsBefore = AllDirs /\ rDirs = AllDirs

\* the configuration a probe used, and what a probe has to have left alone
Target == IF call.arg # Null THEN call.arg ELSE call.stored
ProbeFrame ==
  call.before = [store |-> store, rIndex |-> rIndex, rPages |-> rPages, rDirs |-> rDirs]

\* C26: checkConnection never throws; it returns true exactly when there is a
\* configuration and the PROPFIND is answered 2xx or 405, false otherwise
\* (other status, network failure, no configuration); it changes neither the
\* server nor the local store.
C26_ProbeResult ==
  call.op = "checkConnection" =>
    /\ call.outcome # "throws"
    /\ call.outcome = "true" <=>
         (Target # Null /\ (Ok(call.status) \/ call.status = 405))
    /\ ProbeFrame

\* the same for configurations whose credentials lie in Latin-1
C26_ProbeResultLatin1 ==
  (call.op = "checkConnection" /\ (Target = Null \/ Target.latin1)) =>
    /\ call.outcome # "throws"
    /\ call.outcome = "true" <=>
         (Target # Null /\ (Ok(call.status) \/ call.status = 405))
    /\ ProbeFrame

\* syncDataType has returned for a collection whose remote index existed and
\* whose local records and remote page 0 held at most 100 ids together
SinglePageDue(t) ==
  /\ sync.pc = "typeDone" /\ sync.alone
  /\ BeforeIndex(t) # Null
  /\ Cardinality(Ids(BeforePage0(t)) \cup Ids(sync.local[t])) <= PAGE_SIZE

\* what the single-page path has to have done once syncDataType returned
SinglePageWritten(t) ==
  /\ \A k \in DOMAIN Fetched(sync.log) : Fetched(sync.log)[k] = 0
  /\ \A k \in DOMAIN sync.log :
       sync.log[k].op = "PUT" => sync.log[k].file \in {0, IndexFile}
  /\ PutOk(sync.log) = {0, IndexFile}
  /\ rIndex[t] # Null
  /\ rIndex[t].totalPages = 1
  /\ Len(rIndex[t].pages) = 1
  /\ DOMAIN rPages[t] \ {0} = DOMAIN sync.before.pages[t] \ {0}
  /\ \A n \in DOMAIN rPages[t] \ {0} : rPages[t][n] = sync.before.pages[t][n]

\* C28: when the remote index exists and remote page 0 and the local set hold
\* at most 100 ids together, the sync fetches no page but page 0, PUTs only
\* page_0.json and index.json, leaves an index with totalPages = 1 and one page
\* entry, and leaves every page file numbered 1 or more as it was.
C28_SinglePagePath == SinglePageDue(sync.type) => SinglePageWritten(sync.type)

\* the same with every GET of the invocation answered 2xx or 404
C28_SinglePagePathNoFetchFailure ==
  (SinglePageDue(sync.type) /\ ~Failed(sync.log, "GET")) => SinglePageWritten(sync.type)

\* the single-page path has run over a remote index of two pages
C28_ScenarioTwoPages ==
  /\ SinglePageDue(sync.type) /\ ~Failed(sync.log, "GET")
  /\ BeforeIndex(sync.type).totalPages = 2

\* pushDataType is uploading, or has uploaded, the collection push.type
Pushing == push.pc \in {"putPage0", "putRest", "putIndex", "typeDone"}

\* C29: a push issues no GET; the pages and the index it uploads are the
\* pagination of the local set it was given and of nothing else; every file
\* whose PUT was answered 2xx holds what the push sent, whatever it held
\* before (as long as no other writer has touched the server since).
C29_PushWritesLocalOnly ==
  /\ \A k \in DOMAIN push.log : push.log[k].op = "PUT"
  /\ Pushing =>
       LET up == paginateRecords(push.local[push.type], push.index.lastSyncTime)
       IN /\ push.pages = up.pages
          /\ push.index = up.index
  /\ (Pushing /\ push.alone) =>
       /\ \A n \in PutOk(push.log) \ {IndexFile} :
            PageFile(push.type, n) = PageByNumber(push.pages, n)
       /\ IndexFile \in PutOk(push.log) => rIndex[push.type] = push.index

\* a push of a one-page history has overwritten page 0 and the index of a
\* remote history that another device had uploaded in two pages
C29_Witness ==
  /\ push.pc = "typeDone" /\ push.type = "history" /\ push.alone
  /\ Len(push.pages) = 1
  /\ 1 \in DOMAIN rPages.history
  /\ PutOk(push.log) = {0, IndexFile}

\* ------------------------------------------------------------ the learning flow

\* the AI requests and the handleSelectHistory invocations pending at a time
MaxPending == 1
\* the gaps of an analysis
MaxGaps == 1

\* initApp: the first page of each collection becomes the displayed list
initApp(st) ==
  [UiStart EXCEPT !.displayedHistory = IdSeq(getPaged(st.history, 0, APP_PAGE_SIZE)),
                  !.displayedNotebook = IdSeq(getPaged(st.notebook, 0, APP_PAGE_SIZE)),
                  !.hasMoreHistory = (Len(getPaged(st.history, 0, APP_PAGE_SIZE)) = APP_PAGE_SIZE)]

Shown(list) == {list[k] : k \in DOMAIN list}
Without(list, id) == SelectSeq(list, LAMBDA x : x # id)

\* the await of a handler at which the first store request rejects, "none"
\* when every request succeeds; with a rejected open it is the first
FirstFailure(d, awaits) ==
  IF d = "open" THEN {"none"} \cup {awaits[k] : k \in DOMAIN awaits}
  ELSE {awaits[1]}

\* a handler has returned or rejected; failedAt is its first rejected await
Handled(name, failedAt) == [op |-> name, failedAt |-> failedAt]

\* webdav.pushChanges(allHistory, allNotebook), not awaited
StartPush(st, kind, t, id) ==
  [PushIdle EXCEPT !.pc = pushChangesEntry(enabled),
                   !.local = [c \in DataTypes |-> getAll(st[c])],
                   !.trigger = [kind |-> kind, type |-> t, id |-> id],
                   !.alone = (sync.pc \in Terminal /\ inflight = {}),
                   !.dirsBefore = rDirs,
                   !.before = [index |-> rIndex, pages |-> rPages],
                   !.prev = push.uploaded]

\* the app has loaded the first page of a local store of one history record
\* and one notebook entry; the database is open and remote sync is configured
InitFlow ==
  /\ store = [history |-> LocalStore({1}), notebook |-> LocalStore({1})]
  /\ ui = initApp(store)
  /\ rIndex = [t \in DataTypes |-> Null]
  /\ rPages = [t \in DataTypes |-> <<>>]
  /\ now = StartTime
  /\ sync = SyncIdle
  /\ push = PushIdle
  /\ handler = HandlerIdle
  /\ inflight = {}
  /\ count = 0
  /\ enabled = TRUE
  /\ db = "open"
  /\ rDirs = {}
  /\ call = CallNone
  /\ push0 = PushIdle
  /\ sync0 = SyncIdle
  /\ deviceB = DeviceIdle

\* handleStart up to its await (with a valid AI configuration): the buttons
\* that call it are rendered in IDLE, STUDY and REVIEW
handleStart ==
  /\ \/ ui.state = "IDLE"
     \/ ui.state = "STUDY" /\ ui.challenge
     \/ ui.state = "REVIEW" /\ ui.analysis /\ ui.challenge
  /\ ui.generating < MaxPending
  /\ ui' = [ui EXCEPT !.state = "GENERATING", !.analysis = FALSE,
                      !.userTranslation = FALSE, !.currentRecordId = 0,
                      !.generating = @ + 1]
  /\ UNCHANGED <<store, rIndex, rPages, now, sync, push, handler, inflight, count, enabled,
                db, rDirs, call, push0, sync0, deviceB>>

\* handleStart after its await: generateChallenge has resolved or rejected
generateDone(u, ok) ==
  IF ok THEN [u EXCEPT !.challenge = TRUE, !.state = "STUDY", !.generating = @ - 1]
  ELSE [u EXCEPT !.state = "IDLE", !.generating = @ - 1]

GenerateDone ==
  /\ ui.generating > 0
  /\ \E ok \in BOOLEAN : ui' = generateDone(ui, ok)
  /\ UNCHANGED <<store, rIndex, rPages, now, sync, push, handler, inflight, count, enabled,
                db, rDirs, call, push0, sync0, deviceB>>

handleProceedToInput ==
  /\ ui.state = "STUDY" /\ ui.challenge
  /\ ui' = [ui EXCEPT !.state = "INPUT"]
  /\ UNCHANGED <<store, rIndex, rPages, now, sync, push, handler, inflight, count, enabled,
                db, rDirs, call, push0, sync0, deviceB>>

\* the back button of the INPUT view
BackToStudy ==
  /\ ui.state = "INPUT" /\ ui.challenge
  /\ ui' = [ui EXCEPT !.state = "STUDY"]
  /\ UNCHANGED <<store, rIndex, rPages, now, sync, push, handler, inflight, count, enabled,
                db, rDirs, call, push0, sync0, deviceB>>

\* the textarea of the INPUT view: the user types a translation
TypeTranslation ==
  /\ ui.state = "INPUT" /\ ui.challenge
  /\ ui' = [ui EXCEPT !.userTranslation = TRUE]
  /\ UNCHANGED <<store, rIndex, rPages, now, sync, push, handler, inflight, count, enabled,
                db, rDirs, call, push0, sync0, deviceB>>

\* handleSubmit up to its first await
handleSubmit ==
  /\ ui.state = "INPUT" /\ ui.challenge /\ ui.userTranslation
  /\ ui.analyzing < MaxPending
  /\ ui' = [ui EXCEPT !.state = "ANALYZING", !.analyzing = @ + 1]
  /\ UNCHANGED <<store, rIndex, rPages, now, sync, push, handler, inflight, count, enabled,
                db, rDirs, call, push0, sync0, deviceB>>

\* handleSubmit's catch: analyzeTranslation or a store request has rejected
submitFailed(u) == [u EXCEPT !.state = "INPUT", !.analyzing = @ - 1]

\* the awaits of handleSubmit after the analysis, with gaps gaps of which the first
\* is already in the notebook or not
SubmitAwaits(gaps, alreadySaved) ==
  <<"saveHistory">> \o
  (IF gaps = 0 THEN <<>>
   ELSE IF alreadySaved THEN <<"isGapSaved">>
   ELSE <<"isGapSaved", "saveNotebookEntry">>) \o
  <<"getHistory", "getNotebookEntries">>

\* handleSubmit from the answer of analyzeTranslation to its end, taken as one
\* step: the history record is saved and shown, each gap not yet in the notebook
\* is saved, both collections are read, pushChanges is called, the view is
\* REVIEW; the first rejection leads to the catch, which sets INPUT. (The
\* displayed list the handler prepends to is taken as the current one.)
AnalyzeDone ==
  /\ ui.analyzing > 0
  /\ \/ /\ ui' = submitFailed(ui)
        /\ call' = Handled("handleSubmit", "analyzeTranslation")
        /\ UNCHANGED <<store, now, push, count>>
     \/ /\ count < MaxOps /\ push.pc \in Terminal
        /\ now' \in Clock
        /\ count' = count + 1
        /\ \E gaps \in 0..MaxGaps, alreadySaved \in BOOLEAN :
           \E failedAt \in FirstFailure(db, SubmitAwaits(gaps, alreadySaved)) :
             LET saved == failedAt # "saveHistory"
                 noted == /\ saved /\ gaps > 0 /\ ~alreadySaved
                          /\ failedAt \notin {"isGapSaved", "saveNotebookEntry"}
                 st1 == IF saved
                        THEN [store EXCEPT !.history = put(@, Rec(FreshId, now', 1))]
                        ELSE store
                 st2 == IF noted
                        THEN [st1 EXCEPT !.notebook = put(@, Rec(FreshId, now', 1))]
                        ELSE st1
                 u1 == [ui EXCEPT !.analysis = TRUE]
                 u2 == IF saved
                       THEN [u1 EXCEPT !.displayedHistory = <<FreshId>> \o @,
                                       !.currentRecordId = FreshId]
                       ELSE u1
                 u3 == IF noted /\ failedAt = "none"
                       THEN [u2 EXCEPT !.displayedNotebook = <<FreshId>> \o @]
                       ELSE u2
             IN /\ store' = st2
                /\ call' = Handled("handleSubmit", failedAt)
                /\ IF failedAt = "none"
                   THEN /\ push' = StartPush(st2, "save", "history", FreshId)
                        /\ ui' = [u3 EXCEPT !.state = "REVIEW", !.analyzing = @ - 1]
                   ELSE /\ ui' = submitFailed(u3)
                        /\ UNCHANGED push
  /\ UNCHANGED <<rIndex, rPages, sync, handler, inflight, enabled, db, rDirs, push0, sync0,
                deviceB>>

handleRetry ==
  /\ ui.state = "REVIEW" /\ ui.analysis /\ ui.challenge
  /\ ui' = [ui EXCEPT !.userTranslation = FALSE, !.analysis = FALSE,
                      !.state = "STUDY", !.currentRecordId = 0]
  /\ UNCHANGED <<store, rIndex, rPages, now, sync, push, handler, inflight, count, enabled,
                db, rDirs, call, push0, sync0, deviceB>>

\* the logo of the header: onClick={() => setState(AppState.IDLE)}
LogoClick ==
  /\ ui' = [ui EXCEPT !.state = "IDLE"]
  /\ UNCHANGED <<store, rIndex, rPages, now, sync, push, handler, inflight, count, enabled,
                db, rDirs, call, push0, sync0, deviceB>>

\* handleSelectHistory of a displayed record up to its first await; a record
\* without gaps is shown at once
handleSelectHistory(id) ==
  /\ id \in Shown(ui.displayedHistory)
  /\ \E gaps \in 0..MaxGaps :
       LET u1 == [ui EXCEPT !.challenge = TRUE, !.userTranslation = TRUE,
                            !.analysis = TRUE, !.currentRecordId = id]
       IN IF gaps = 0
          THEN ui' = [u1 EXCEPT !.state = "REVIEW"]
          ELSE /\ ui.selecting < MaxPending
               /\ ui' = [u1 EXCEPT !.selecting = @ + 1]
  /\ UNCHANGED <<store, rIndex, rPages, now, sync, push, handler, inflight, count, enabled,
                db, rDirs, call, push0, sync0, deviceB>>

\* handleSelectHistory after its awaits: every db.isGapSaved has resolved, or
\* one has rejected
SelectDone ==
  /\ ui.selecting > 0
  /\ \E outcome \in StoreOutcomes(db) :
       ui' = IF outcome = "ok"
             THEN [ui EXCEPT !.state = "REVIEW", !.selecting = @ - 1]
             ELSE [ui EXCEPT !.selecting = @ - 1]
  /\ UNCHANGED <<store, rIndex, rPages, now, sync, push, handler, inflight, count, enabled,
                db, rDirs, call, push0, sync0, deviceB>>

\* handleDeleteHistory of a displayed record, taken as one step
handleDeleteHistory(id) ==
  /\ id \in Shown(ui.displayedHistory)
  /\ count < MaxOps /\ push.pc \in Terminal
  /\ now' \in Clock
  /\ count' = count + 1
  /\ \E failedAt \in FirstFailure(db, <<"deleteHistory", "getHistory", "getNotebookEntries">>) :
       LET st1 == IF failedAt = "deleteHistory" THEN store
                  ELSE [store EXCEPT !.history = delete(@, id)]
           u1 == IF failedAt = "deleteHistory" THEN ui
                 ELSE [ui EXCEPT !.displayedHistory = Without(@, id)]
       IN /\ store' = st1
          /\ call' = Handled("handleDeleteHistory", failedAt)
          /\ IF failedAt = "none"
             THEN /\ push' = StartPush(st1, "delete", "history", id)
                  /\ ui' = IF ui.currentRecordId = id
                           THEN [u1 EXCEPT !.state = "IDLE", !.currentRecordId = 0]
                           ELSE u1
             ELSE /\ ui' = u1
                  /\ UNCHANGED push
  /\ UNCHANGED <<rIndex, rPages, sync, handler, inflight, enabled, db, rDirs, push0, sync0,
                deviceB>>

\* handleDeleteNotebookEntry of a displayed entry, taken as one step
handleDeleteNotebookEntry(id) ==
  /\ id \in Shown(ui.displayedNotebook)
  /\ count < MaxOps /\ push.pc \in Terminal
  /\ now' \in Clock
  /\ count' = count + 1
  /\ \E failedAt \in FirstFailure(db, <<"deleteNotebookEntry", "getHistory", "getNotebookEntries">>) :
       LET st1 == IF failedAt = "deleteNotebookEntry" THEN store
                  ELSE [store EXCEPT !.notebook = delete(@, id)]
           u1 == IF failedAt = "deleteNotebookEntry" THEN ui
                 ELSE [ui EXCEPT !.displayedNotebook = Without(@, id)]
       IN /\ store' = st1
          /\ ui' = u1
          /\ call' = Handled("handleDeleteNotebookEntry", failedAt)
          /\ IF failedAt = "none"
             THEN push' = StartPush(st1, "delete", "notebook", id)
             ELSE UNCHANGED push
  /\ UNCHANGED <<rIndex, rPages, sync, handler, inflight, enabled, db, rDirs, push0, sync0,
                deviceB>>

\* handleSaveGap of a gap of the REVIEW view, taken as one step
handleSaveGap ==
  /\ ui.state = "REVIEW" /\ ui.analysis /\ ui.challenge
  /\ count < MaxOps /\ push.pc \in Terminal
  /\ now' \in Clock
  /\ count' = count + 1
  /\ \E failedAt \in FirstFailure(db, <<"saveNotebookEntry", "getHistory", "getNotebookEntries">>) :
       LET st1 == IF failedAt = "saveNotebookEntry" THEN store
                  ELSE [store EXCEPT !.notebook = put(@, Rec(FreshId, now', 1))]
           u1 == IF failedAt = "saveNotebookEntry" THEN ui
                 ELSE [ui EXCEPT !.displayedNotebook = <<FreshId>> \o @]
       IN /\ store' = st1
          /\ ui' = u1
          /\ call' = Handled("handleSaveGap", failedAt)
          /\ IF failedAt = "none"
             THEN push' = StartPush(st1, "save", "notebook", FreshId)
             ELSE UNCHANGED push
  /\ UNCHANGED <<rIndex, rPages, sync, handler, inflight, enabled, db, rDirs, push0, sync0,
                deviceB>>

NextFlow ==
  \/ handleStart
  \/ GenerateDone
  \/ handleProceedToInput
  \/ BackToStudy
  \/ TypeTranslation
  \/ handleSubmit
  \/ AnalyzeDone
  \/ handleRetry
  \/ LogoClick
  \/ \E id \in Shown(ui.displayedHistory) : handleSelectHistory(id)
  \/ SelectDone
  \/ \E id \in Shown(ui.displayedHistory) : handleDeleteHistory(id)
  \/ \E id \in Shown(ui.displayedNotebook) : handleDeleteNotebookEntry(id)
  \/ handleSaveGap
  \/ PushInitDirs
  \/ PushBegin
  \/ PushPutPage
  \/ PushPutIndex
  \/ PushReturn

SpecFlow == InitFlow /\ [][NextFlow]_vars

\* C27: the completion of a content generation sets the view to STUDY only
\* when the view is GENERATING, and the completion of an analysis sets it to
\* REVIEW, or to INPUT on failure, only when the view is ANALYZING, whatever the
\* user has done while the request was pending.
C27_StrictFlow ==
  [][/\ (ui'.generating < ui.generating /\ ui'.state = "STUDY") =>
          ui.state = "GENERATING"
     /\ (ui'.analyzing < ui.analyzing /\ ui'.state \in {"REVIEW", "INPUT"}) =>
          ui.state = "ANALYZING"]_vars

\* a step of a handler has changed a local collection
Mutation == store' # store /\ call' # call

\* the step has called pushChanges with both collections as they are after it,
\* and the push is not over
PushStarted ==
  /\ push' # push
  /\ push'.pc = pushChangesEntry(enabled)
  /\ push'.local = [t \in DataTypes |-> getAll(store'[t])]

\* C30: every mutation of a local collection that the application completes
\* (a history record or notebook entry saved or deleted) is followed, in the
\* same handler, by the start of an incremental push whose input is both
\* collections read after the mutation; the handler returns without waiting for
\* the push.
C30_MutationThenPush == [][Mutation => PushStarted]_vars

\* as long as no store request of the handler rejects after the mutation, the
\* push is started with the collections that hold it
C30_MutationThenPushNoRejection ==
  [][(Mutation /\ call'.failedAt = "none") => PushStarted]_vars

\* a record has been saved, the push that carries it is in flight and the view
\* has moved on from REVIEW
C30_ScenarioFlowContinues ==
  /\ push.pc \notin Terminal /\ push.trigger.kind = "save"
  /\ push.trigger.id \in DOMAIN store[push.trigger.type]
  /\ ui.state = "GENERATING"

\* ------------------------------------------------------------ sync under the learning flow

\* the local and remote histories a sync is started on: small ones, and 10
\* local records against 95 remote ones, which repaginates
LiveHistories ==
  {[local |-> LocalStore({1}), peer |-> PeerStore(1..MaxSmallId)],
   [local |-> LocalStore(96..105), peer |-> PeerStore(1..95)]}

\* the app has loaded the first page of its local store; the server is empty
\* or holds the history another device has uploaded
InitLive ==
  /\ \/ /\ store = [history |-> LocalStore({1}), notebook |-> LocalStore({1})]
        /\ rIndex = [t \in DataTypes |-> Null]
        /\ rPages = [t \in DataTypes |-> <<>>]
        /\ rDirs = {}
     \/ \E h \in LiveHistories :
          LET up == paginateRecords(getAll(h.peer), StartTime)
          IN /\ store = [history |-> h.local, notebook |-> LocalStore({1})]
             /\ rIndex = [history |-> up.index, notebook |-> Null]
             /\ rPages = [history |-> [n \in PageNumbers(up.pages) |->
                                         PageByNumber(up.pages, n)],
                          notebook |-> <<>>]
             /\ rDirs = AllDirs
  /\ ui = initApp(store)
  /\ enabled = TRUE
  /\ now = StartTime
  /\ sync = SyncIdle
  /\ push = PushIdle
  /\ handler = HandlerIdle
  /\ inflight = {}
  /\ count = 0
  /\ db = "open"
  /\ call = CallNone
  /\ push0 = PushIdle
  /\ sync0 = SyncIdle
  /\ deviceB = DeviceIdle

\* a request that a running performSync waits for is answered
SyncStep ==
  \/ SyncInitDirs
  \/ SyncGetIndex
  \/ SyncGetPage0
  \/ SyncDownloadPage
  \/ SyncPutPage
  \/ SyncPutIndex
  \/ SyncReturn
  \/ SyncSaveHistory
  \/ SyncSaveNotebook
  \/ SyncReload

\* what the user does in the learning flow while a sync runs or after it
FlowStep ==
  \/ handleStart
  \/ GenerateDone
  \/ handleProceedToInput
  \/ LogoClick

NextLive == StartSync \/ SyncStep \/ InflightPut \/ FlowStep

Running == sync.pc \notin Terminal
Ended == sync.pc \in {"done", "failed"}

\* every request of a running sync is eventually answered: weak fairness of
\* SyncStep, of which a step is possible exactly while a sync is running
SyncAnswered == []<>(~Running) \/ []<><<SyncStep>>_vars

\* the event loop resumes syncData once syncDataType has returned, and every
\* request is answered
SpecLive == InitLive /\ [][NextLive]_vars /\ WF_vars(SyncReturn) /\ SyncAnswered

\* the learning flow takes its next step whatever the sync does
FlowReady ==
  /\ (ui.state = "IDLE" /\ ui.generating < MaxPending) => ENABLED handleStart
  /\ ui.generating > 0 => ENABLED GenerateDone
  /\ (ui.state = "STUDY" /\ ui.challenge) => ENABLED handleProceedToInput
  /\ ENABLED LogoClick

\* C24: every full sync invocation eventually ends, completed or failed, when
\* each of its requests is eventually answered; once it has ended isSyncing is
\* false; the step at which a sync fails changes nothing of the React state
\* but isSyncing (neither the view nor the displayed lists), and the learning
\* flow can take its next step while a sync runs and after it has failed.
C24_SyncEnds ==
  /\ Running ~> Ended
  /\ [](Ended => ~ui.isSyncing)
  /\ [][(sync' # sync /\ sync'.pc = "failed") =>
          ui' = [ui EXCEPT !.isSyncing = FALSE]]_vars
  /\ []((Running \/ sync.pc = "failed") => FlowReady)

\* a sync has failed after it had merged a remote history larger than the
\* displayed one, while the user had moved on to STUDY; the list is the one
\* loaded at the start
C24_Witness ==
  /\ sync.pc = "failed" /\ ~ui.isSyncing
  /\ ui.state = "STUDY"
  /\ Len(sync.result.history) > Len(ui.displayedHistory)
  /\ ui.displayedHistory = initApp(sync.localBefore).displayedHistory

\* invocation s has uploaded collection t (its index PUT was answered 2xx)
\* and no other writer has touched the server since it started
UploadedAlone(s, t) ==
  /\ s.pc = "typeDone" /\ s.type = t /\ s.alone
  /\ IndexFile \in PutOk(s.log)

\* the page files that s found and that are numbered from the new totalPages
\* on hold what they held when s started
StalePagesKept(s, t) ==
  \A n \in DOMAIN s.before.pages[t] :
    n >= rIndex[t].totalPages => PageFile(t, n) = s.before.pages[t][n]

\* C31: no step removes a remote file or directory: a page file or index file
\* that exists exists after every step; and once a sync or a push has uploaded
\* a collection, the page files numbered from the new totalPages on still hold
\* the content they had before it.
C31_RemoteFilesStay ==
  /\ [][/\ rDirs \subseteq rDirs'
        /\ \A t \in DataTypes :
             /\ DOMAIN rPages[t] \subseteq DOMAIN rPages'[t]
             /\ rIndex[t] # Null => rIndex'[t] # Null]_vars
  /\ [](\A t \in DataTypes :
          /\ UploadedAlone(sync, t) => StalePagesKept(sync, t)
          /\ UploadedAlone(push, t) => StalePagesKept(push, t))

\* a push has uploaded a one-page history over a remote history of two pages:
\* page_1.json is no longer listed and still holds its records
C31_Witness ==
  /\ UploadedAlone(push, "history")
  /\ rIndex.history.totalPages = 1
  /\ 1 \in DOMAIN push.before.pages.history
  /\ Len(PageFile("history", 1).records) > 0

\* the ids this device holds in collection t and that no page listed by the
\* remote index held when the sync started, although the index existed: the
\* records another device has deleted and pushed away (or never had)
GoneRemotely(t) ==
  IF BeforeIndex(t) = Null THEN {}
  ELSE Ids(sync.local[t]) \ RecIds(BeforeListed(t))

\* C32: a record that this device still holds and that the remote collection
\* no longer lists (another device deleted it and pushed) is, once this
\* device's full sync of the collection has completed, again in the pages the
\* remote index lists and in the set returned to the device.
C32_DeletionsDoNotPropagate ==
  (sync.pc = "typeDone" /\ sync.alone) =>
    /\ GoneRemotely(sync.type) \subseteq Ids(sync.ret)
    /\ GoneRemotely(sync.type) \subseteq RecIds(ListedRecords(sync.type))

\* the sync of a history has completed on a device that held a record the
\* remote history, uploaded by another device, did not list
C32_Witness ==
  /\ sync.pc = "typeDone" /\ sync.alone /\ sync.type = "history"
  /\ GoneRemotely("history") # {}
  /\ NoFailure(sync.log)

\* C34: a record the user deletes from LocalStore while a full sync is in
\* flight is absent from LocalStore once that sync has completed and stored its
\* result.
C34_DeletedStaysAbsent ==
  sync.pc = "done" =>
    \A t \in DataTypes : sync.deleted[t] \cap DOMAIN store[t] = {}

\* the deletions that came after the collection was stored do stay
C34_LateDeletionStays ==
  sync.pc = "done" =>
    \A t \in DataTypes : sync.gone[t] \cap DOMAIN store[t] = {}

\* a sync has completed after the user deleted a record its result holds,
\* before the result of that collection was stored
C34_ScenarioDeletedEarly ==
  /\ sync.pc = "done"
  /\ \E t \in DataTypes :
       (sync.deleted[t] \ sync.gone[t]) \cap Ids(sync.result[t]) # {}

\* the step is handleSubmit's second half and it has written a history record
SubmitWrote == AnalyzeDone /\ store'.history # store.history

\* C38: a history record is written to LocalStore only after the analysis of
\* the translation succeeded; if the analysis fails the view returns to INPUT,
\* nothing is written and no push is started; and whenever a submission has
\* written a history record, the flow ends in REVIEW with a push started.
C38_SubmitOutcome ==
  [][/\ (AnalyzeDone /\ call'.failedAt = "analyzeTranslation") =>
          (ui'.state = "INPUT" /\ store' = store /\ push' = push)
     /\ SubmitWrote =>
          /\ call'.failedAt # "analyzeTranslation"
          /\ ui'.state = "REVIEW"
          /\ PushStarted]_vars

\* the first two parts alone: a failed analysis writes nothing, starts no push
\* and sets INPUT; a history record is written only after a successful analysis
C38_AnalysisFailureWritesNothing ==
  [][/\ (AnalyzeDone /\ call'.failedAt = "analyzeTranslation") =>
          (ui'.state = "INPUT" /\ store' = store /\ push' = push)
     /\ SubmitWrote => call'.failedAt # "analyzeTranslation"]_vars

\* as long as no store request rejects after the history record was saved, the
\* submission ends in REVIEW with the push started
C38_SubmitWithoutRejection ==
  [][(SubmitWrote /\ call'.failedAt = "none") =>
       (ui'.state = "REVIEW" /\ PushStarted)]_vars

\* a submission has saved its history record, then a store request rejected:
\* the view is INPUT and no push is in flight
C38_ScenarioSavedThenRejected ==
  /\ call.op = "handleSubmit" /\ call.failedAt \notin {"none", "analyzeTranslation", "saveHistory"}
  /\ FreshId + 1 \in DOMAIN store.history
  /\ ui.state = "INPUT" /\ push.pc = "idle"

\* ------------------------------------------------------------ two pushes in flight

\* handleDeleteHistory / handleDeleteNotebookEntry / handleSaveGap called while
\* the push of the mutation before is still in flight, taken as one step up to
\* the call of webdav.pushChanges: the handlers do not wait for the earlier
\* push, whose requests go on beside those of the new one
MutateDuringPush ==
  /\ handler.pc = "idle"
  /\ push.pc \notin Terminal /\ push0.pc \in Terminal
  /\ sync.pc \in Terminal
  /\ count < MaxOps
  /\ now' \in Clock
  /\ count' = count + 1
  /\ \/ \E t \in DataTypes : \E id \in Deletable(store[t]) :
          /\ store' = [store EXCEPT ![t] = delete(@, id)]
          /\ push' = [StartPush(store', "delete", t, id) EXCEPT !.alone = FALSE]
     \/ /\ store' = [store EXCEPT !.notebook = put(@, Rec(FreshId, now', 1))]
        /\ push' = [StartPush(store', "save", "notebook", FreshId) EXCEPT !.alone = FALSE]
  /\ push0' = [push EXCEPT !.alone = FALSE]
  /\ UNCHANGED <<rIndex, rPages, sync, handler, inflight, enabled, ui, db, rDirs, call,
                 sync0, deviceB>>

\* the next step of the earlier push: initializeDirectories, pushDataType up to
\* its first PUT, a page PUT answered, the index PUT answered, or pushChanges
\* resuming after pushDataType
Push0Step ==
  /\ \/ /\ push0.pc = "dirs"
        /\ \E resps \in MkcolRuns(rDirs) :
             /\ rDirs' = DirsAfter(resps, rDirs)
             /\ push0' = IF initializeDirectories(resps) = "resolved"
                         THEN [push0 EXCEPT !.pc = "begin", !.type = "history"]
                         ELSE [push0 EXCEPT !.pc = "failed"]
        /\ UNCHANGED <<rIndex, rPages, inflight>>
     \/ /\ push0.pc = "begin"
        /\ push0' = pushDataType(push0, now)
        /\ UNCHANGED <<rIndex, rPages, inflight, rDirs>>
     \/ /\ push0.pc \in {"putPage0", "putRest"}
        /\ \E n \in push0.pending :
             \/ /\ DirOf(push0.type) \in rDirs
                /\ rPages' = [rPages EXCEPT ![push0.type] =
                                putPage(@, PageByNumber(push0.pages, n))]
                /\ push0' = pushPagePutDone(push0, n)
                /\ UNCHANGED inflight
             \/ /\ push0' = putFailed(push0, n)
                /\ inflight' = inflight \cup Orphans(push0, n)
                /\ UNCHANGED rPages
        /\ UNCHANGED <<rIndex, rDirs>>
     \/ /\ push0.pc = "putIndex"
        /\ \/ /\ DirOf(push0.type) \in rDirs
              /\ rIndex' = [rIndex EXCEPT ![push0.type] = push0.index]
              /\ push0' = pushTypeDone(push0)
           \/ /\ push0' = putFailed(push0, IndexFile)
              /\ UNCHANGED rIndex
        /\ UNCHANGED <<rPages, inflight, rDirs>>
     \/ /\ push0.pc = "typeDone"
        /\ push0' = pushChanges(push0)
        /\ UNCHANGED <<rIndex, rPages, inflight, rDirs>>
  /\ UNCHANGED <<store, now, sync, push, handler, count, enabled, ui, db, call,
                 sync0, deviceB>>

\* a mutation and its push, then a second mutation whose push runs beside the
\* first; with at most two pages to a collection a failed push leaves no PUT
\* on the wire
NextTwo ==
  \/ \E t \in DataTypes : \E id \in DOMAIN store[t] : DeleteRecord(t, id)
  \/ SaveNotebookEntry
  \/ HandlerPush
  \/ PushInitDirs
  \/ PushBegin
  \/ PushPutPage
  \/ PushPutIndex
  \/ PushReturn
  \/ MutateDuringPush
  \/ Push0Step

SpecTwo == InitConcurrent /\ [][NextTwo]_vars

\* both pushes have been started and both have completed
BothPushesDone ==
  /\ push0.pc = "done" /\ push0.trigger.kind # "none"
  /\ push.pc = "done"

\* C33: when two incremental pushes are started one after the other by the
\* same app instance, the second with the newer local set, and both complete,
\* the remote index and the index-listed pages of each collection describe
\* the second set, whatever the interleaving of their requests.
C33_SecondPushWins ==
  BothPushesDone => \A t \in DataTypes : RemoteConsistent(t, push.local[t])

\* both pushes have completed, the second answered before the first: the
\* index of a collection is the one the first push wrote, and it differs from
\* the one of the second, whose set is not empty
C33_ScenarioFirstPushLast ==
  /\ BothPushesDone
  /\ \E t \in DataTypes :
       /\ push.local[t] # <<>>
       /\ push0.uploaded[t] # Null /\ push.uploaded[t] # Null
       /\ rIndex[t] = push0.uploaded[t].index
       /\ rIndex[t].totalRecords # push.uploaded[t].index.totalRecords
       /\ ~RemoteConsistent(t, push.local[t])

\* ------------------------------------------------------------ Save & Sync

\* SettingsModal.handleSaveWebDAV with an enabled configuration:
\* webdav.saveConfig(davConfig), then onSyncTrigger() = handleManualSync =
\* performSync, whether or not a sync is in flight; the invocation in flight
\* goes on as sync0
handleSaveWebDAV ==
  /\ sync0.pc \in Terminal
  /\ handler.pc = "idle" /\ push.pc \in Terminal
  /\ count < MaxOps
  /\ now' \in Clock
  /\ enabled' = TRUE
  /\ sync0' = IF sync.pc \in Terminal THEN sync0 ELSE [sync EXCEPT !.alone = FALSE]
  /\ sync' = [SyncIdle EXCEPT !.pc = syncDataEntry(enabled'),
                              !.local = [t \in DataTypes |-> getAll(store[t])],
                              !.before = [index |-> rIndex, pages |-> rPages],
                              !.localBefore = store,
                              !.dirsBefore = rDirs,
                              !.alone = (sync.pc \in Terminal /\ inflight = {})]
  /\ ui' = [ui EXCEPT !.isSyncing = TRUE]
  /\ count' = count + 1
  /\ UNCHANGED <<store, rIndex, rPages, push, handler, inflight, db, rDirs, call, push0,
                 deviceB>>

\* the event loop turns to the other performSync in flight: the two
\* invocations change places, so that the next request answered is one of the
\* other invocation
ResumeOther ==
  /\ sync0.pc \notin Terminal
  /\ sync' = [sync0 EXCEPT !.alone = FALSE]
  /\ sync0' = sync
  /\ UNCHANGED <<store, rIndex, rPages, now, push, handler, inflight, count, enabled, ui, db,
                 rDirs, call, push0, deviceB>>

NextSaveAndSync ==
  \/ StartSync
  \/ SyncStep
  \/ InflightPut
  \/ handleSaveWebDAV
  \/ ResumeOther

SpecSaveAndSync == InitLive /\ [][NextSaveAndSync]_vars

\* how many performSync invocations are in flight
SyncsInFlight ==
  (IF sync.pc \in Terminal THEN 0 ELSE 1) + (IF sync0.pc \in Terminal THEN 0 ELSE 1)

\* C35: at most one full sync is in flight at any time in one app instance,
\* and the syncing indicator is true in every state in which a full sync is in
\* flight (startup sync, manual sync button and 'Save & Sync' included).
C35_OneSyncShown ==
  /\ SyncsInFlight <= 1
  /\ SyncsInFlight > 0 => ui.isSyncing

\* as long as a single performSync is in flight and no other has run beside
\* it, the indicator is true
C35_SingleSyncShown ==
  (sync.pc \notin Terminal /\ sync0.pc = "idle") => ui.isSyncing

\* two syncs were in flight; one has ended and reset the indicator while the
\* other is still running
C35_ScenarioIndicatorOff ==
  /\ SyncsInFlight = 1 /\ ~ui.isSyncing
  /\ sync.pc # "idle" /\ sync0.pc # "idle"

\* ------------------------------------------------------------ two devices

\* how many syncs the two devices do in turn: A, B, A
MaxTurns == 3

\* the records a store holds
Held(st) == {st[i] : i \in DOMAIN st}

\* device A holds a small or a two-page history and a notebook entry, device B
\* nothing or one history record, the server nothing or a small history; a
\* record held in two places is the same record
InitDevices ==
  /\ \E a \in {LocalStore({1}), LocalStore(1..150)}, b \in {LocalStore({}), LocalStore({2})},
        r \in {LocalStore({}), LocalStore({2, 3})} :
       LET up == paginateRecords(getAll(r), StartTime)
           bStore == [history |-> b, notebook |-> LocalStore({})]
       IN /\ store = [history |-> a, notebook |-> LocalStore({1})]
          /\ rIndex = [history |-> IF r = <<>> THEN Null ELSE up.index, notebook |-> Null]
          /\ rPages = [history |-> [n \in PageNumbers(up.pages) |->
                                      PageByNumber(up.pages, n)],
                       notebook |-> <<>>]
          /\ rDirs = IF r = <<>> THEN {} ELSE AllDirs
          /\ deviceB = [store |-> bStore,
                        initial |-> [a |-> store, b |-> bStore,
                                     remote |-> [history |-> getAll(r), notebook |-> <<>>]]]
  /\ now = StartTime
  /\ sync = SyncIdle
  /\ push = PushIdle
  /\ handler = HandlerIdle
  /\ inflight = {}
  /\ count = 0
  /\ enabled = TRUE
  /\ ui = UiStart
  /\ db = "open"
  /\ call = CallNone
  /\ push0 = PushIdle
  /\ sync0 = SyncIdle

\* the app is opened on the device whose turn it is (A first, then the other
\* device each time) once the sync before has completed: initApp loads the
\* first page of each collection and calls performSync
DeviceSync ==
  /\ sync.pc \in {"idle", "done"}
  /\ count < MaxTurns
  /\ now' \in Clock
  /\ LET here == IF count = 0 THEN store ELSE deviceB.store
         there == IF count = 0 THEN deviceB.store ELSE store
     IN /\ store' = here
        /\ deviceB' = [deviceB EXCEPT !.store = there]
        /\ sync' = [SyncIdle EXCEPT !.pc = syncDataEntry(enabled),
                                    !.local = [t \in DataTypes |-> getAll(here[t])],
                                    !.before = [index |-> rIndex, pages |-> rPages],
                                    !.localBefore = here,
                                    !.dirsBefore = rDirs]
        /\ ui' = [initApp(here) EXCEPT !.isSyncing = TRUE]
  /\ count' = count + 1
  /\ UNCHANGED <<rIndex, rPages, push, handler, inflight, enabled, db, rDirs, call, push0,
                 sync0>>

NextDevices == DeviceSync \/ SyncStep

SpecDevices == InitDevices /\ [][NextDevices]_vars

\* device A, then B, then A again have each completed a full sync
ThreeSyncsDone == count = 3 /\ sync.pc = "done"

\* the union of what A, B and the server held of collection t at the start
InitialUnion(t) ==
  Held(deviceB.initial.a[t]) \cup Held(deviceB.initial.b[t]) \cup
  Elems(deviceB.initial.remote[t])

\* C36: after device A, then device B, then device A again have each
\* completed a full sync in sequence with no other activity, the collections
\* of A and of B and the records of the remote index-listed pages all equal
\* the union by id of what A, B and the server held at the start, for every
\* collection size, sizes above one page included.
C36_Convergence ==
  ThreeSyncsDone =>
    \A t \in DataTypes :
      /\ Held(store[t]) = InitialUnion(t)
      /\ Held(deviceB.store[t]) = InitialUnion(t)
      /\ ListedRecords(t) = InitialUnion(t)

\* small collections that differ in all three places have converged
C36_ScenarioConverged ==
  /\ ThreeSyncsDone
  /\ deviceB.initial.b.history # <<>> /\ deviceB.initial.remote.history # <<>>
  /\ \A t \in DataTypes :
       /\ Held(store[t]) = InitialUnion(t)
       /\ Held(deviceB.store[t]) = InitialUnion(t)
       /\ ListedRecords(t) = InitialUnion(t)

\* the three syncs have completed on a history of two pages that only A held:
\* A and the server hold all of it, device B holds the records of page 0 alone
C36_ScenarioSecondPageLost ==
  /\ ThreeSyncsDone
  /\ deviceB.initial.remote.history = <<>> /\ deviceB.initial.b.history = <<>>
  /\ Cardinality(InitialUnion("history")) > PAGE_SIZE
  /\ Held(store.history) = InitialUnion("history")
  /\ ListedRecords("history") = InitialUnion("history")
  /\ Cardinality(Held(deviceB.store.history)) = PAGE_SIZE

\* ------------------------------------------------------------ the sidebar lists

\* handleLoadMoreHistory, taken as one step: the next page of the sorted
\* history is read at offset (currentHistoryPage + 1) * 50 and appended to the
\* displayed list; an empty page ends the list, a rejected read changes nothing
handleLoadMoreHistory ==
  /\ ui.hasMoreHistory
  /\ \E outcome \in StoreOutcomes(db) :
       LET nextPage == ui.currentHistoryPage + 1
           moreRecords == IdSeq(getPaged(store.history, nextPage * APP_PAGE_SIZE,
                                         APP_PAGE_SIZE))
       IN ui' = IF outcome # "ok" THEN ui
                ELSE IF Len(moreRecords) > 0
                THEN [ui EXCEPT !.displayedHistory = @ \o moreRecords,
                                !.currentHistoryPage = nextPage,
                                !.hasMoreHistory = (Len(moreRecords) = APP_PAGE_SIZE)]
                ELSE [ui EXCEPT !.hasMoreHistory = FALSE]
  /\ UNCHANGED <<store, rIndex, rPages, now, sync, push, handler, inflight, count, enabled,
                 db, rDirs, call, push0, sync0, deviceB>>

\* the app has loaded the first page of a history of one record or of 52, and
\* of a notebook of one entry; remote sync is not configured, so a push
\* returns at once and a sync stores the local collections
InitList ==
  /\ store \in {[history |-> h, notebook |-> LocalStore({1})] :
                  h \in {LocalStore({1}), LocalStore(1..52)}}
  /\ rIndex = [t \in DataTypes |-> Null]
  /\ rPages = [t \in DataTypes |-> <<>>]
  /\ now = StartTime
  /\ sync = SyncIdle
  /\ push = PushIdle
  /\ handler = HandlerIdle
  /\ inflight = {}
  /\ count = 0
  /\ enabled = FALSE
  /\ ui = initApp(store)
  /\ db = "open"
  /\ rDirs = {}
  /\ call = CallNone
  /\ push0 = PushIdle
  /\ sync0 = SyncIdle
  /\ deviceB = DeviceIdle

\* a session is generated, translated and submitted; a displayed record is
\* deleted; more records are loaded; the sync button is pressed
NextList ==
  \/ handleStart
  \/ GenerateDone
  \/ handleProceedToInput
  \/ TypeTranslation
  \/ handleSubmit
  \/ AnalyzeDone
  \/ \E id \in Deletable(store.history) : handleDeleteHistory(id)
  \/ handleLoadMoreHistory
  \/ StartSync
  \/ SyncSaveHistory
  \/ SyncSaveNotebook
  \/ SyncReload

SpecList == InitList /\ [][NextList]_vars

\* no id is displayed twice
NoDuplicate(list) == Cardinality(Shown(list)) = Len(list)

\* no stored record lies, in display order, between two displayed ones
\* without being displayed
NoSkip(list, st) ==
  LET sorted == IdSeq(getAll(st))
      at == {k \in DOMAIN sorted : sorted[k] \in Shown(list)}
  IN \A k \in DOMAIN sorted :
       (\E i, j \in at : i < k /\ k < j) => k \in at

\* C37: the displayed history list never holds the same record id twice and
\* never skips a stored record between two displayed ones, after any sequence
\* of submitting a session, deleting a record, loading more and syncing; the
\* same for the displayed notebook list.
C37_ListsIntact ==
  /\ NoDuplicate(ui.displayedHistory) /\ NoSkip(ui.displayedHistory, store.history)
  /\ NoDuplicate(ui.displayedNotebook) /\ NoSkip(ui.displayedNotebook, store.notebook)

\* a session was submitted, then more records were loaded: a record is
\* displayed twice
C37_ScenarioShownTwice ==
  /\ call = Handled("handleSubmit", "none")
  /\ ui.currentHistoryPage = 1
  /\ ~NoDuplicate(ui.displayedHistory)

\* a displayed record was deleted, then more records were loaded: a stored
\* record between two displayed ones is not displayed
C37_ScenarioSkipped ==
  /\ call = Handled("handleDeleteHistory", "none")
  /\ ui.currentHistoryPage = 1
  /\ ~NoSkip(ui.displayedHistory, store.history)

====
